---- MODULE Spec2Model ----
(***************************************************************************)
(* Model of the local-employment-system storage layer: the hash-partitioned *)
(* workers collections, the year-partitioned jobs collections, the          *)
(* unpartitioned users / employers / admins / applications collections, and *)
(* the repository functions and request handlers that read and write them.  *)
(*                                                                          *)
(* A MongoDB collection is a sequence of documents in natural (insertion)   *)
(* order; find_one returns the first match, delete_one removes the first    *)
(* match, delete_many removes every match.  An ObjectId is a natural number *)
(* taken from one increasing counter.  A text that the code tokenises or    *)
(* matches by regular expression is a tuple of one-character strings.       *)
(***************************************************************************)
EXTENDS Integers, Sequences, FiniteSets, TLC

VARIABLES
    users,         \* collection "users"
    workers,       \* collection "workers" (unpartitioned: staging / sample data)
    workerParts,   \* collections "workers_partition_0" .. "workers_partition_7"
    employers,     \* collection "employers"
    admins,        \* collection "admins"
    jobs,          \* collection "jobs" (unpartitioned)
    jobParts,      \* collections "jobs_<year>", by year, for the years that exist
    applications,  \* collection "applications"
    nextId,        \* the next ObjectId the driver generates
    clock,         \* datetime.utcnow(), in ticks
    hashSeed,      \* the string-hash key of the running interpreter
    last,          \* the last call: its name, arguments and outcome
    tagSeen,       \* history: <<worker id, partition number>> pairs ever computed
    ensured,       \* history: <<user id, worker id>> pairs ensure_worker_row returned
    postedIn,      \* history: <<job id, year>> pairs of the jobs post_job created
    inflight       \* per request thread: the call that has done its look-up and not yet its insert

vars == <<users, workers, workerParts, employers, admins, jobs, jobParts,
          applications, nextId, clock, hashSeed, last, tagSeen, ensured, postedIn, inflight>>

-----------------------------------------------------------------------------
(* Bounds and program constants *)

NumWorkerPartitions == 8
MatchLimit == 100
SearchLimit == 50
BaseYear == 2024
TicksPerYear == 2

MaxSeed == 1
MaxClock == 2
MaxId == 5
MaxHashId == 4
MaxIdPost == 1
MaxIdJobs == 4
MaxApplicants == 2
MaxIdScan == 5
MaxIdMatch == 4
MaxIdCascade == 23
MaxCapJobs == 101
MaxIdSearch == 4
MaxThreads == 2
MaxIdRace == 6
MaxIdStatus == 2
MaxIdProfile == 2
MaxApplications == 3
MaxIdApply == 7

-----------------------------------------------------------------------------
(* Sequences *)

Range(s) == {s[i] : i \in 1..Len(s)}

\* the sequences of ss one after the other, by halves
RECURSIVE Concat(_)
Concat(ss) ==
    IF ss = <<>> THEN <<>>
    ELSE IF Len(ss) = 1 THEN ss[1]
    ELSE LET half == Len(ss) \div 2
         IN Concat(SubSeq(ss, 1, half)) \o Concat(SubSeq(ss, half + 1, Len(ss)))

-----------------------------------------------------------------------------
(* Python text operations *)

UpperCase == <<"A","B","C","D","E","F","G","H","I","J","K","L","M",
               "N","O","P","Q","R","S","T","U","V","W","X","Y","Z">>
LowerCase == <<"a","b","c","d","e","f","g","h","i","j","k","l","m",
               "n","o","p","q","r","s","t","u","v","w","x","y","z">>

LowerChar(c) ==
    IF \E i \in 1..Len(UpperCase) : UpperCase[i] = c
    THEN LowerCase[CHOOSE i \in 1..Len(UpperCase) : UpperCase[i] = c]
    ELSE c

\* str.lower()
Lower(s) == [i \in 1..Len(s) |-> LowerChar(s[i])]

IsSpace(c) == c = " "

RECURSIVE LStrip(_)
LStrip(s) == IF s # <<>> /\ IsSpace(Head(s)) THEN LStrip(Tail(s)) ELSE s

RECURSIVE RStrip(_)
RStrip(s) ==
    IF s # <<>> /\ IsSpace(s[Len(s)]) THEN RStrip(SubSeq(s, 1, Len(s) - 1)) ELSE s

\* str.strip()
Strip(s) == RStrip(LStrip(s))

\* str.split(','): the pieces between the commas, empty pieces included
RECURSIVE SplitFrom(_, _)
SplitFrom(s, piece) ==
    IF s = <<>> THEN <<piece>>
    ELSE IF Head(s) = "," THEN <<piece>> \o SplitFrom(Tail(s), <<>>)
    ELSE SplitFrom(Tail(s), Append(piece, Head(s)))

SplitComma(s) == SplitFrom(s, <<>>)

\* [s.strip().lower() for s in skills.split(',') if s.strip()]
SkillTokens(skills) ==
    LET pieces == SplitComma(skills)
        kept == {i \in 1..Len(pieces) : Strip(pieces[i]) # <<>>}
        RECURSIVE Build(_)
        Build(i) ==
            IF i > Len(pieces) THEN <<>>
            ELSE IF i \in kept THEN <<Lower(Strip(pieces[i]))>> \o Build(i + 1)
            ELSE Build(i + 1)
    IN Build(1)

\* Python "needle in haystack" on texts
IsSubstring(needle, hay) ==
    \E off \in 0..(Len(hay) - Len(needle)) :
        \A k \in 1..Len(needle) : hay[off + k] = needle[k]

\* MongoDB {"$regex": pattern, "$options": "i"} on a text field: an unanchored,
\* case-insensitive search.  The pattern alphabet of the model is letters, the
\* space and "."; a letter or space matches itself, "." matches any character.
RegexCharMatches(p, c) == p = "." \/ LowerChar(p) = LowerChar(c)

RegexSearchI(pattern, text) ==
    \E off \in 0..(Len(text) - Len(pattern)) :
        \A k \in 1..Len(pattern) : RegexCharMatches(pattern[k], text[off + k])

-----------------------------------------------------------------------------
(* JSON values, ObjectIds and collections *)

\* A request-body field that is absent, and one that is JSON null (None).
MissingText == <<"<missing>">>
NullText == <<"<null>">>
IsText(v) == v # MissingText /\ v # NullText

\* dict.get(key, default) on a body whose absent keys hold MissingText
Get(data, key, default) == IF data[key] = MissingText THEN default ELSE data[key]

\* str(ObjectId) and its inverse to_object_id: the 24-digit hex text of an id
\* is another value than the id.  The functions below take ObjectIds; where the
\* code hands one of them a text ("if isinstance(x, str): x = to_object_id(x)"),
\* the caller applies to_object_id.
StrOf(oid) == [hex |-> oid]
to_object_id(id_str) == id_str.hex

\* a document matches the query {field: value, ...}: it has every field named,
\* with the value given
Matches(doc, query) == \A k \in DOMAIN query : k \in DOMAIN doc /\ doc[k] = query[k]

Matching(coll, query) == {i \in 1..Len(coll) : Matches(coll[i], query)}

\* collection.find(query): every match, in natural order
Find(coll, query) ==
    LET Hit(doc) == Matches(doc, query) IN SelectSeq(coll, Hit)

\* collection.find_one(query): the first match, or None
None == [none |-> TRUE]
FindOne(coll, query) ==
    LET hits == Matching(coll, query)
    IN IF hits = {} THEN None
       ELSE coll[CHOOSE i \in hits : \A j \in hits : i <= j]

\* collection.delete_one(query): removes the first match
DeleteOne(coll, query) ==
    LET hits == Matching(coll, query)
    IN IF hits = {} THEN coll
       ELSE LET first == CHOOSE i \in hits : \A j \in hits : i <= j
            IN SubSeq(coll, 1, first - 1) \o SubSeq(coll, first + 1, Len(coll))

\* the deleted_count of delete_one
DeletedCount(coll, query) == IF Matching(coll, query) = {} THEN 0 ELSE 1

\* collection.delete_many(query): removes every match
DeleteMany(coll, query) ==
    LET Kept(doc) == ~Matches(doc, query) IN SelectSeq(coll, Kept)

\* collection.insert_one(doc)
InsertOne(coll, doc) == Append(coll, doc)

-----------------------------------------------------------------------------
(* Partition routing: models/mongodb.py *)

\* hash(str(value)): the interpreter's keyed string hash, a signed integer
\* fixed by the text and by the key the interpreter drew when it started.
PyStrHash(seed, text) ==
    ((text.hex * 7 + seed * 5 + text.hex * seed * 3) % 64) - 32

hash_partition(seed, value, num_partitions) ==
    PyStrHash(seed, StrOf(value)) % num_partitions

\* "workers_partition_<n>" is named by its number n
get_worker_partition_collection(seed, worker_id) ==
    hash_partition(seed, worker_id, NumWorkerPartitions)

\* a router that ignores the year
get_jobs_partition_collection_fixed(year) == BaseYear

\* "jobs_<year>" is named by its year
get_jobs_partition_collection(year) == year

get_all_worker_partitions == [i \in 1..NumWorkerPartitions |-> i - 1]

-----------------------------------------------------------------------------
(* The database as one value, for the functions that read and write it *)

DB == [users |-> users, workers |-> workers, workerParts |-> workerParts,
       employers |-> employers, admins |-> admins, jobs |-> jobs,
       jobParts |-> jobParts,
       applications |-> applications, nextId |-> nextId]

SetDB(db) ==
    /\ users' = db.users
    /\ workers' = db.workers
    /\ workerParts' = db.workerParts
    /\ employers' = db.employers
    /\ admins' = db.admins
    /\ jobs' = db.jobs
    /\ jobParts' = db.jobParts
    /\ applications' = db.applications
    /\ nextId' = db.nextId

\* serialize_doc: "_id" becomes "id" and every value that is an ObjectId
\* becomes its text; object_ids names the fields of doc that hold an ObjectId
SerializeFields(doc, object_ids) ==
    [k \in (DOMAIN doc \ {"_id"}) \cup {"id"} |->
        IF k = "id" THEN StrOf(doc["_id"])
        ELSE IF k \in object_ids THEN StrOf(doc[k])
        ELSE doc[k]]

\* serialize_doc of a stored document
serialize_doc(doc) ==
    SerializeFields(doc, {"user_id", "employer_id", "job_id", "worker_id"})

-----------------------------------------------------------------------------
(* models/user_model_mongo.py *)

create_user(db, email, role) ==
    [db EXCEPT !.users = InsertOne(@, [_id |-> db.nextId, email |-> email, role |-> role]),
               !.nextId = @ + 1]

get_user_by_email(db, email) ==
    LET Q == [email |-> email]
        user == FindOne(db.users, Q)
    IN IF user = None THEN None
       ELSE serialize_doc(user) @@ [user_id |-> StrOf(user._id)]

\* the first worker matching the query over the partitions 0..7 in order, serialized
_find_worker_in_partitions(db, query) ==
    LET parts == get_all_worker_partitions
        hit == {i \in 1..Len(parts) : FindOne(db.workerParts[parts[i]], query) # None}
    IN IF hit = {} THEN None
       ELSE LET first == CHOOSE i \in hit : \A j \in hit : i <= j
            IN serialize_doc(FindOne(db.workerParts[parts[first]], query))

\* a lookup that reads the unpartitioned collection only
find_worker_by_user_id_unpartitioned(db, user_id) ==
    LET Q == [user_id |-> user_id]
        hit == FindOne(db.workers, Q)
    IN IF hit = None THEN None ELSE serialize_doc(hit)

find_worker_by_user_id(db, user_id) ==
    LET Q == [user_id |-> user_id] IN _find_worker_in_partitions(db, Q)

find_worker_by_id(db, worker_id) ==
    LET Q == [_id |-> worker_id] IN _find_worker_in_partitions(db, Q)

\* ensure_worker_row: the database after the call and the value returned
ensure_worker_row(db, seed, user_id, full_name, skills) ==
    LET worker == find_worker_by_user_id(db, user_id)
    IN IF worker = None
       THEN LET worker_id == db.nextId
                worker_doc == [_id |-> worker_id, user_id |-> user_id,
                               full_name |-> full_name, skills |-> skills,
                               phone |-> <<>>, location |-> <<>>,
                               experience |-> <<>>]
                staged == InsertOne(db.workers, worker_doc)
                partition_coll == get_worker_partition_collection(seed, worker_id)
                Q == [_id |-> worker_id]
            IN [db |-> [db EXCEPT
                          !.workerParts[partition_coll] = InsertOne(@, worker_doc),
                          !.workers = DeleteOne(staged, Q),
                          !.nextId = @ + 1],
                ret |-> [worker_id |-> StrOf(worker_id), user_id |-> StrOf(user_id)],
                created |-> TRUE]
       ELSE [db |-> db,
             ret |-> worker @@ [worker_id |-> worker.id],
             created |-> FALSE]

\* the first write of ensure_worker_row: insert_one("workers", worker_doc)
ensure_worker_row_stage(db, user_id, full_name, skills) ==
    LET worker_doc == [_id |-> db.nextId, user_id |-> user_id,
                       full_name |-> full_name, skills |-> skills,
                       phone |-> <<>>, location |-> <<>>,
                       experience |-> <<>>]
    IN [db |-> [db EXCEPT !.workers = InsertOne(@, worker_doc), !.nextId = @ + 1],
        worker_doc |-> worker_doc]

\* the third write of ensure_worker_row: delete_one("workers", {"_id": worker_id})
ensure_worker_row_unstage(db, worker_doc) ==
    LET Q == [_id |-> worker_doc._id]
    IN [db EXCEPT !.workers = DeleteOne(@, Q)]

\* a second write that is the delete from "workers", before any insert into
\* the partition
ensure_worker_row_place_deleting(db, seed, worker_doc) ==
    ensure_worker_row_unstage(db, worker_doc)

\* the second write of ensure_worker_row: the insert into the partition of the
\* new id
ensure_worker_row_place(db, seed, worker_doc) ==
    LET partition_coll == get_worker_partition_collection(seed, worker_doc._id)
    IN [db EXCEPT !.workerParts[partition_coll] = InsertOne(@, worker_doc)]

\* an insert that scans again and creates nothing when a worker is there
ensure_worker_row_insert_rescanning(db, seed, user_id, full_name, skills) ==
    ensure_worker_row(db, seed, user_id, full_name, skills)

\* ensure_worker_row from its first insert_one on, for a call whose scan of the
\* partitions found no worker
ensure_worker_row_insert(db, seed, user_id, full_name, skills) ==
    LET worker_id == db.nextId
        worker_doc == [_id |-> worker_id, user_id |-> user_id,
                       full_name |-> full_name, skills |-> skills,
                       phone |-> <<>>, location |-> <<>>,
                       experience |-> <<>>]
        staged == InsertOne(db.workers, worker_doc)
        partition_coll == get_worker_partition_collection(seed, worker_id)
        Q == [_id |-> worker_id]
    IN [db |-> [db EXCEPT
                  !.workerParts[partition_coll] = InsertOne(@, worker_doc),
                  !.workers = DeleteOne(staged, Q),
                  !.nextId = @ + 1],
        ret |-> [worker_id |-> StrOf(worker_id), user_id |-> StrOf(user_id)],
        created |-> TRUE]

get_worker_by_user(db, user_id) ==
    LET worker == find_worker_by_user_id(db, user_id)
    IN IF worker = None THEN None ELSE worker @@ [worker_id |-> worker.id]

\* a look-up in the partition computed from the id and nowhere else
get_worker_by_id_computed_only(db, seed, worker_id) ==
    LET Q == [_id |-> worker_id]
        partition_coll == get_worker_partition_collection(seed, worker_id)
        worker == FindOne(db.workerParts[partition_coll], Q)
    IN IF worker # None
       THEN LET doc == serialize_doc(worker) IN doc @@ [worker_id |-> doc.id]
       ELSE None

\* get_worker_by_id: the partition computed from the id first, then the scan
\* of the partitions 0..7
get_worker_by_id(db, seed, worker_id) ==
    LET Q == [_id |-> worker_id]
        partition_coll == get_worker_partition_collection(seed, worker_id)
        worker == FindOne(db.workerParts[partition_coll], Q)
        fallback == _find_worker_in_partitions(db, Q)
    IN IF worker # None
       THEN LET doc == serialize_doc(worker) IN doc @@ [worker_id |-> doc.id]
       ELSE IF fallback # None THEN fallback @@ [worker_id |-> fallback.id]
       ELSE None

\* "if x:" and "x or y" on a value of a profile body: the absent key, None and
\* the empty text are false
TruthyText(v) == IsText(v) /\ v # <<>>

\* the $set document of upsert_worker_profile
ProfileSet(data) ==
    LET experience_value == IF TruthyText(data.experience_years)
                            THEN data.experience_years
                            ELSE Get(data, "experience", <<>>)
    IN [full_name |-> Get(data, "full_name", <<>>),
        skills |-> Get(data, "skills", <<>>),
        phone |-> Get(data, "phone", <<>>),
        location |-> Get(data, "location", <<>>),
        experience |-> experience_value,
        experience_years |-> experience_value,
        age |-> Get(data, "age", <<>>),
        gender |-> Get(data, "gender", <<>>)]

\* an update that inserts the document when the partition has none with the id
upsert_worker_profile_inserting(db, seed, worker_id, data) ==
    LET Q == [_id |-> worker_id]
        partition_coll == get_worker_partition_collection(seed, worker_id)
        hit == Matching(db.workerParts[partition_coll], Q)
        first == CHOOSE i \in hit : \A j \in hit : i <= j
    IN IF hit = {}
       THEN [db |-> [db EXCEPT !.workerParts[partition_coll] =
                                   InsertOne(@, ProfileSet(data) @@ [_id |-> worker_id])],
             ret |-> 0]
       ELSE [db |-> [db EXCEPT !.workerParts[partition_coll][first] = ProfileSet(data) @@ @],
             ret |-> 1]

\* an update that leaves alone the fields the body does not carry
upsert_worker_profile_sparse(db, seed, worker_id, data) ==
    LET Q == [_id |-> worker_id]
        partition_coll == get_worker_partition_collection(seed, worker_id)
        hit == Matching(db.workerParts[partition_coll], Q)
        first == CHOOSE i \in hit : \A j \in hit : i <= j
        old == db.workerParts[partition_coll][first]
        Keep(k) == k \in DOMAIN data /\ data[k] = MissingText /\ k \in DOMAIN old
        new == [k \in DOMAIN ProfileSet(data) |->
                   IF Keep(k) THEN old[k] ELSE ProfileSet(data)[k]]
    IN IF hit = {} THEN [db |-> db, ret |-> 0]
       ELSE [db |-> [db EXCEPT !.workerParts[partition_coll][first] = new @@ @],
             ret |-> 1]

\* upsert_worker_profile: update_one, without upsert, on the partition computed
\* from the id; updated_at changes with every update, so that the modified
\* count is the matched count
upsert_worker_profile(db, seed, worker_id, data) ==
    LET Q == [_id |-> worker_id]
        partition_coll == get_worker_partition_collection(seed, worker_id)
        hit == Matching(db.workerParts[partition_coll], Q)
        first == CHOOSE i \in hit : \A j \in hit : i <= j
    IN IF hit = {} THEN [db |-> db, ret |-> 0]
       ELSE [db |-> [db EXCEPT !.workerParts[partition_coll][first] = ProfileSet(data) @@ @],
             ret |-> 1]

create_employer_profile(db, user_id, company_name, employer_name) ==
    [db EXCEPT !.employers = InsertOne(@, [_id |-> db.nextId,
                                           user_id |-> user_id,
                                           employer_name |-> employer_name,
                                           company_name |-> company_name,
                                           location |-> <<>>, phone |-> <<>>]),
               !.nextId = @ + 1]

get_employer_by_user(db, user_id) ==
    LET Q == [user_id |-> user_id]
        employer == FindOne(db.employers, Q)
    IN IF employer = None THEN None
       ELSE serialize_doc(employer) @@ [employer_id |-> StrOf(employer._id)]

create_admin_profile(db, user_id, admin_name, department) ==
    [db EXCEPT !.admins = InsertOne(@, [_id |-> db.nextId,
                                        user_id |-> user_id,
                                        admin_name |-> admin_name,
                                        department |-> department]),
               !.nextId = @ + 1]

get_admin_by_user(db, user_id) ==
    LET Q == [user_id |-> user_id]
        admin == FindOne(db.admins, Q)
    IN IF admin = None THEN None
       ELSE serialize_doc(admin) @@ [admin_id |-> StrOf(admin._id)]

\* delete_user: the database after the call and the count returned
delete_user(db, user_id) ==
    LET IsUser == [_id |-> user_id]
        Owned == [user_id |-> user_id]
    IN IF FindOne(db.users, IsUser) # None
       THEN [db |-> [db EXCEPT !.workers = DeleteOne(@, Owned),
                               !.employers = DeleteOne(@, Owned),
                               !.admins = DeleteOne(@, Owned),
                               !.users = DeleteOne(@, IsUser)],
             ret |-> DeletedCount(db.users, IsUser)]
       ELSE [db |-> db, ret |-> 0]

-----------------------------------------------------------------------------
(* models/job_model_mongo.py *)

\* JSON values of the salary fields: absent, null, a number, a text of digits
\* (what an HTML form sends), a text that is no number.
JsonMissing == [t |-> "missing"]
JsonNull == [t |-> "null"]
JsonNum(n) == [t |-> "num", n |-> n]
JsonNumText(n) == [t |-> "text", n |-> n]
JsonBadText == [t |-> "text", n |-> -1]

\* Python truth value: None, 0 and the absent key (get() gives None) are false
Truthy(v) ==
    CASE v.t = "missing" -> FALSE
      [] v.t = "null" -> FALSE
      [] v.t = "num" -> v.n # 0
      [] v.t = "text" -> TRUE

\* float(v) raises ValueError on a text that is no number
FloatRaises(v) == v.t = "text" /\ v.n < 0
Float(v) == JsonNum(v.n)

\* float(data.get(key, 0)) if data.get(key) else None
SalaryField(v) == IF Truthy(v) THEN Float(v) ELSE JsonNull

\* datetime.year of a clock value
YearOf(t) == BaseYear + (t \div TicksPerYear)

\* post_job: the database after the call, the id returned, or the exception
post_job(db, now, employer_id, data) ==
    LET posted_at == now
        raises == \/ Truthy(data.salary_min) /\ FloatRaises(data.salary_min)
                  \/ Truthy(data.salary_max) /\ FloatRaises(data.salary_max)
        job_doc == [_id |-> db.nextId,
                    employer_id |-> employer_id,
                    title |-> Get(data, "title", <<>>),
                    required_skills |-> Get(data, "required_skills", <<>>),
                    description |-> Get(data, "description", <<>>),
                    salary_min |-> SalaryField(data.salary_min),
                    salary_max |-> SalaryField(data.salary_max),
                    location |-> Get(data, "location", <<>>),
                    status |-> "open",
                    posted_at |-> posted_at]
        year == YearOf(posted_at)
        partition_coll == get_jobs_partition_collection(year)
        coll == IF partition_coll \in DOMAIN db.jobParts
                THEN db.jobParts[partition_coll] ELSE <<>>
    IN IF raises
       THEN [db |-> db, raised |-> "ValueError", ret |-> None]
       ELSE [db |-> [db EXCEPT
                       !.jobParts = (partition_coll :> InsertOne(coll, job_doc)) @@ @,
                       !.nextId = @ + 1],
             raised |-> "none",
             ret |-> db.nextId]

\* _get_all_job_partitions: the collections named "jobs_<something>", but not
\* "jobs"; list_collection_names gives them in no particular order.
_get_all_job_partitions(db) == DOMAIN db.jobParts

Orderings(S) ==
    {o \in [1..Cardinality(S) -> S] : \A i, j \in 1..Cardinality(S) : o[i] = o[j] => i = j}

\* get_job_by_id, scanning the partitions in the order given
get_job_by_id(db, order, job_id) ==
    LET Q == [_id |-> job_id]
        hit == {i \in 1..Len(order) : FindOne(db.jobParts[order[i]], Q) # None}
    IN IF hit = {} THEN None
       ELSE LET first == CHOOSE i \in hit : \A j \in hit : i <= j
                job == serialize_doc(FindOne(db.jobParts[order[first]], Q))
            IN job @@ [job_id |-> job.id]

\* sort by posted_at descending, equal keys keeping their order: Python's
\* list.sort(key=posted_at, reverse=True), and the pipeline's {"$sort": {"posted_at": -1}}
SortByPostedAtDesc(docs) ==
    LET keys == {docs[i].posted_at : i \in 1..Len(docs)}
        RECURSIVE From(_)
        From(left) ==
            IF left = {} THEN <<>>
            ELSE LET top == CHOOSE k \in left : \A m \in left : m <= k
                     IsTop(d) == d.posted_at = top
                 IN SelectSeq(docs, IsTop) \o From(left \ {top})
    IN From(keys)

Limit(docs, n) == SubSeq(docs, 1, IF Len(docs) < n THEN Len(docs) ELSE n)

\* {"$or": [{"required_skills": {"$regex": skill, "$options": "i"}} ...]}
SkillPatternsMatch(worker_skills, doc) ==
    /\ IsText(doc.required_skills)
    /\ \E i \in 1..Len(worker_skills) : RegexSearchI(worker_skills[i], doc.required_skills)

\* "if location:" -- a text that is not empty
LocationGiven(location) == IsText(location) /\ location # <<>>

\* the location alternatives of the $match stage
LocationAccepts(location, doc) ==
    \/ "location" \notin DOMAIN doc
    \/ doc.location = location
    \/ doc.location = NullText
    \/ doc.location = <<>>

\* the $match stage of worker_matched_jobs
MatchStage(worker_skills, location, doc) ==
    /\ doc.status = "open"
    /\ SkillPatternsMatch(worker_skills, doc)
    /\ LocationGiven(location) => LocationAccepts(location, doc)

\* a $lookup whose $unwind keeps the job that has no employer record
EmployersOf_preserving(db, doc) ==
    LET Q == [_id |-> doc.employer_id]
        found == Find(db.employers, Q)
    IN IF found = <<>>
       THEN <<[company_name |-> MissingText, phone |-> MissingText, location |-> MissingText]>>
       ELSE found

\* $lookup from employers on employer_id = _id, then $unwind: one output
\* document per employer found, none when there is no employer
EmployersOf(db, doc) ==
    LET Q == [_id |-> doc.employer_id] IN Find(db.employers, Q)

\* a $lookup whose $match leaves out the comparison with the worker
ApplicationStatusOf_any_worker(db, doc, worker_id) ==
    LET Q == [job_id |-> doc._id]
        application == Find(db.applications, Q)
    IN IF Len(application) > 0 THEN application[1].application_status ELSE "null"

\* $lookup from applications of this job and this worker, then $addFields
ApplicationStatusOf(db, doc, worker_id) ==
    LET Q == [job_id |-> doc._id, worker_id |-> worker_id]
        application == Find(db.applications, Q)
    IN IF Len(application) > 0 THEN application[1].application_status ELSE "null"

\* a pipeline whose $limit stage comes without the $sort stage before it
MatchedPipeline_unsorted(db, coll, worker_id, worker_skills, location) ==
    LET Stage1(d) == MatchStage(worker_skills, location, d)
        matched == SelectSeq(coll, Stage1)
        Row(d, e) == [_id |-> d._id, job_id |-> StrOf(d._id), title |-> d.title,
                      location |-> d.location, posted_at |-> d.posted_at,
                      required_skills |-> d.required_skills,
                      description |-> d.description,
                      salary_min |-> d.salary_min, salary_max |-> d.salary_max,
                      application_status |-> ApplicationStatusOf(db, d, worker_id),
                      company_name |-> e.company_name, company_phone |-> e.phone,
                      company_location |-> e.location]
        RowsOf(d) == LET es == EmployersOf(db, d)
                     IN [k \in 1..Len(es) |-> Row(d, es[k])]
        joined == Concat([i \in 1..Len(matched) |-> RowsOf(matched[i])])
    IN Limit(joined, MatchLimit)

\* the pipeline of worker_matched_jobs on one partition
MatchedPipeline(db, coll, worker_id, worker_skills, location) ==
    LET Stage1(d) == MatchStage(worker_skills, location, d)
        matched == SelectSeq(coll, Stage1)
        Row(d, e) == [_id |-> d._id, job_id |-> StrOf(d._id), title |-> d.title,
                      location |-> d.location, posted_at |-> d.posted_at,
                      required_skills |-> d.required_skills,
                      description |-> d.description,
                      salary_min |-> d.salary_min, salary_max |-> d.salary_max,
                      application_status |-> ApplicationStatusOf(db, d, worker_id),
                      company_name |-> e.company_name, company_phone |-> e.phone,
                      company_location |-> e.location]
        RowsOf(d) == LET es == EmployersOf(db, d)
                     IN [k \in 1..Len(es) |-> Row(d, es[k])]
        joined == Concat([i \in 1..Len(matched) |-> RowsOf(matched[i])])
    IN Limit(SortByPostedAtDesc(joined), MatchLimit)

\* the loop over the partitions shared by the three scans: the results of the
\* partitions in the listing order, a partition whose query raises (one of
\* failing) contributing nothing; results[p] is what the query gives on p
RECURSIVE ScanPartitions(_, _, _)
ScanPartitions(order, failing, results) ==
    IF order = <<>> THEN <<>>
    ELSE IF Head(order) \in failing THEN ScanPartitions(Tail(order), failing, results)
    ELSE results[Head(order)] \o ScanPartitions(Tail(order), failing, results)

\* serialize_doc of the rows of a $project stage, whose ids are texts already
SerializeRows(rows) == [i \in 1..Len(rows) |-> SerializeFields(rows[i], {})]

\* a scan whose $match has no skill predicate when the skills give no token
worker_matched_jobs_unfiltered(db, order, down, worker_id, skills, location) ==
    LET worker_skills == IF SkillTokens(skills) = <<>> THEN << <<>> >> ELSE SkillTokens(skills)
        results == [p \in DOMAIN db.jobParts |->
                      MatchedPipeline(db, db.jobParts[p], worker_id, worker_skills, location)]
        all_results == ScanPartitions(order, down, results)
    IN [raised |-> "none",
        ret |-> SerializeRows(Limit(SortByPostedAtDesc(all_results), MatchLimit))]

\* a scan that returns the concatenation of the partitions as it is
worker_matched_jobs_unsorted(db, order, down, worker_id, skills, location) ==
    LET worker_skills == SkillTokens(skills)
        failing == IF worker_skills = <<>> THEN DOMAIN db.jobParts ELSE down
        results == [p \in DOMAIN db.jobParts |->
                      MatchedPipeline(db, db.jobParts[p], worker_id, worker_skills, location)]
        all_results == ScanPartitions(order, failing, results)
    IN [raised |-> "none", ret |-> SerializeRows(Limit(all_results, MatchLimit))]

\* worker_matched_jobs: order is the partition listing, down the partitions
\* whose query fails; a skills text without tokens makes "$or": [] and every
\* query fail
worker_matched_jobs(db, order, down, worker_id, skills, location) ==
    LET worker_skills == SkillTokens(skills)
        failing == IF worker_skills = <<>> THEN DOMAIN db.jobParts ELSE down
        results == [p \in DOMAIN db.jobParts |->
                      MatchedPipeline(db, db.jobParts[p], worker_id, worker_skills, location)]
        all_results == ScanPartitions(order, failing, results)
    IN [raised |-> "none",
        ret |-> SerializeRows(Limit(SortByPostedAtDesc(all_results), MatchLimit))]

\* admin_list_jobs
AdminListPipeline(db, coll) ==
    LET Row(d, e) == [_id |-> d._id, job_id |-> StrOf(d._id), title |-> d.title,
                      employer_id |-> StrOf(d.employer_id),
                      required_skills |-> d.required_skills,
                      description |-> d.description,
                      salary_min |-> d.salary_min, salary_max |-> d.salary_max,
                      location |-> d.location, status |-> d.status,
                      posted_at |-> d.posted_at, company_name |-> e.company_name]
        RowsOf(d) == LET es == EmployersOf(db, d)
                     IN [k \in 1..Len(es) |-> Row(d, es[k])]
        joined == Concat([i \in 1..Len(coll) |-> RowsOf(coll[i])])
    IN SortByPostedAtDesc(joined)

admin_list_jobs(db, order, down) ==
    LET results == [p \in DOMAIN db.jobParts |-> AdminListPipeline(db, db.jobParts[p])]
        all_results == ScanPartitions(order, down, results)
    IN [raised |-> "none", ret |-> SerializeRows(SortByPostedAtDesc(all_results))]

\* a scan without the try/except around the partition query
get_jobs_by_employer_failfast(db, order, down, employer_id) ==
    LET results == [p \in DOMAIN db.jobParts |->
                      Find(db.jobParts[p], [employer_id |-> employer_id])]
        all_jobs == SortByPostedAtDesc(ScanPartitions(order, {}, results))
    IN IF \E i \in 1..Len(order) : order[i] \in down
       THEN [raised |-> "Exception", ret |-> <<>>]
       ELSE [raised |-> "none",
             ret |-> [i \in 1..Len(all_jobs) |->
                        serialize_doc(all_jobs[i]) @@ [job_id |-> StrOf(all_jobs[i]._id)]]]

\* get_jobs_by_employer
get_jobs_by_employer(db, order, down, employer_id) ==
    LET results == [p \in DOMAIN db.jobParts |->
                      Find(db.jobParts[p], [employer_id |-> employer_id])]
        all_jobs == SortByPostedAtDesc(ScanPartitions(order, down, results))
    IN [raised |-> "none",
        ret |-> [i \in 1..Len(all_jobs) |->
                   serialize_doc(all_jobs[i]) @@ [job_id |-> StrOf(all_jobs[i]._id)]]]

\* search_jobs: the $match stage.  "if query_text:", "if location:" and
\* "if skills:" hold for a text that is not empty; a $regex condition matches
\* a field holding a text only; {"location": None} matches a null or absent field
SearchMatch(query_text, location, skills, doc) ==
    LET Given(v) == IsText(v) /\ v # <<>>
        Field(name) == IF name \in DOMAIN doc THEN doc[name] ELSE NullText
        Regex(pattern, field) == IsText(field) /\ RegexSearchI(pattern, field)
        skill_list == IF Given(skills) THEN SkillTokens(skills) ELSE <<>>
    IN /\ doc.status = "open"
       /\ Given(query_text) =>
             \/ Regex(query_text, Field("title"))
             \/ Regex(query_text, Field("description"))
             \/ Regex(query_text, Field("required_skills"))
       /\ Given(location) =>
             \/ Regex(location, Field("location"))
             \/ Field("location") = NullText
       /\ skill_list # <<>> =>
             \E i \in 1..Len(skill_list) : Regex(skill_list[i], Field("required_skills"))

\* search_jobs: one aggregation, on the collection "jobs"
search_jobs(db, query_text, location, skills) ==
    LET Stage1(d) == SearchMatch(query_text, location, skills, d)
        matched == SelectSeq(db.jobs, Stage1)
        Row(d, e) == [_id |-> d._id, job_id |-> StrOf(d._id), title |-> d.title,
                      location |-> d.location, posted_at |-> d.posted_at,
                      required_skills |-> d.required_skills,
                      description |-> d.description,
                      salary_min |-> d.salary_min, salary_max |-> d.salary_max,
                      company_name |-> e.company_name]
        RowsOf(d) == LET es == EmployersOf(db, d)
                     IN [k \in 1..Len(es) |-> Row(d, es[k])]
        joined == Concat([i \in 1..Len(matched) |-> RowsOf(matched[i])])
    IN SerializeRows(Limit(SortByPostedAtDesc(joined), SearchLimit))

\* text fields of a request body that may also be absent or null
MissingStr == "<missing>"
NullStr == "<null>"

\* update_job: looks the job up in the collection "jobs"
update_job(db, job_id, data) ==
    LET Q == [_id |-> job_id]
        job == FindOne(db.jobs, Q)
        Given(v) == v # MissingText /\ v # NullText
        GivenNum(v) == v.t # "missing" /\ v.t # "null"
        raises == \/ GivenNum(data.salary_min) /\ FloatRaises(data.salary_min)
                  \/ GivenNum(data.salary_max) /\ FloatRaises(data.salary_max)
        Updated(d) ==
            [d EXCEPT
               !.title = IF Given(data.title) THEN data.title ELSE @,
               !.required_skills = IF Given(data.required_skills)
                                   THEN data.required_skills ELSE @,
               !.description = IF Given(data.description) THEN data.description ELSE @,
               !.salary_min = IF GivenNum(data.salary_min) THEN Float(data.salary_min) ELSE @,
               !.salary_max = IF GivenNum(data.salary_max) THEN Float(data.salary_max) ELSE @,
               !.location = IF Given(data.location) THEN data.location ELSE @,
               !.status = IF data.status \notin {MissingStr, NullStr} THEN data.status ELSE @]
        any == \/ Given(data.title) \/ Given(data.required_skills)
               \/ Given(data.description) \/ Given(data.location)
               \/ GivenNum(data.salary_min) \/ GivenNum(data.salary_max)
               \/ data.status \notin {MissingStr, NullStr}
        first == CHOOSE i \in Matching(db.jobs, Q) : \A j \in Matching(db.jobs, Q) : i <= j
    IN IF job = None THEN [db |-> db, raised |-> "ValueError", ret |-> 0]
       ELSE IF raises THEN [db |-> db, raised |-> "ValueError", ret |-> 0]
       ELSE IF any
       THEN [db |-> [db EXCEPT !.jobs[first] = Updated(@)], raised |-> "none", ret |-> 1]
       ELSE [db |-> db, raised |-> "none", ret |-> 0]

\* a delete that looks for the job in the collection "jobs", as update_job does
delete_job_unpartitioned(db, order, job_id) ==
    LET OfJob == [job_id |-> job_id]
        Q == [_id |-> job_id]
        db1 == [db EXCEPT !.applications = DeleteMany(@, OfJob)]
    IN [db |-> [db1 EXCEPT !.jobs = DeleteOne(@, Q)],
        ret |-> IF DeletedCount(db.jobs, Q) > 0 THEN 1 ELSE 0]

\* delete_job: the applications of the job go first, then the job is deleted
\* from the first partition, in the listing order, that holds it
delete_job(db, order, job_id) ==
    LET OfJob == [job_id |-> job_id]
        Q == [_id |-> job_id]
        hit == {i \in 1..Len(order) : DeletedCount(db.jobParts[order[i]], Q) > 0}
        first == CHOOSE i \in hit : \A j \in hit : i <= j
        db1 == [db EXCEPT !.applications = DeleteMany(@, OfJob)]
    IN IF hit = {} THEN [db |-> db1, ret |-> 0]
       ELSE [db |-> [db1 EXCEPT !.jobParts[order[first]] = DeleteOne(@, Q)], ret |-> 1]

-----------------------------------------------------------------------------
(* models/application_model_mongo.py *)

\* an insert without the look-up of an existing application
create_application_unchecked(db, now, job_id, worker_id) ==
    LET application_doc == [_id |-> db.nextId, job_id |-> job_id, worker_id |-> worker_id,
                            application_status |-> "pending", applied_at |-> now]
    IN [db |-> [db EXCEPT !.applications = InsertOne(@, application_doc),
                          !.nextId = @ + 1],
        raised |-> "none", ret |-> db.nextId]

create_application(db, now, job_id, worker_id) ==
    LET Q == [job_id |-> job_id, worker_id |-> worker_id]
        existing == FindOne(db.applications, Q)
        application_doc == [_id |-> db.nextId, job_id |-> job_id, worker_id |-> worker_id,
                            application_status |-> "pending", applied_at |-> now]
    IN IF existing # None
       THEN [db |-> db, raised |-> "ValueError", ret |-> None]
       ELSE [db |-> [db EXCEPT !.applications = InsertOne(@, application_doc),
                               !.nextId = @ + 1],
             raised |-> "none", ret |-> db.nextId]

\* an insert that looks up again and raises when an application is there
create_application_insert_rechecking(db, now, job_id, worker_id) ==
    create_application(db, now, job_id, worker_id)

\* create_application from its insert_one on, for a call whose look-up found
\* no application
create_application_insert(db, now, job_id, worker_id) ==
    LET application_doc == [_id |-> db.nextId, job_id |-> job_id, worker_id |-> worker_id,
                            application_status |-> "pending", applied_at |-> now]
    IN [db |-> [db EXCEPT !.applications = InsertOne(@, application_doc),
                          !.nextId = @ + 1],
        raised |-> "none", ret |-> db.nextId]

\* the statuses update_application_status accepts
ApplicationStatuses == {"pending", "approved", "rejected"}

\* an update that stores whatever status it is given
update_application_status_unvalidated(db, application_id, status) ==
    LET Q == [_id |-> application_id]
        hit == Matching(db.applications, Q)
        first == CHOOSE i \in hit : \A j \in hit : i <= j
    IN IF hit = {} THEN [db |-> db, raised |-> "none", ret |-> 0]
       ELSE [db |-> [db EXCEPT !.applications[first].application_status = status],
             raised |-> "none", ret |-> 1]

\* update_application_status: update_one on the first application with the id;
\* updated_at changes with every update, so that the modified count is the
\* matched count
update_application_status(db, application_id, status) ==
    LET Q == [_id |-> application_id]
        hit == Matching(db.applications, Q)
        first == CHOOSE i \in hit : \A j \in hit : i <= j
    IN IF status \notin ApplicationStatuses
       THEN [db |-> db, raised |-> "ValueError", ret |-> None]
       ELSE IF hit = {} THEN [db |-> db, raised |-> "none", ret |-> 0]
       ELSE [db |-> [db EXCEPT !.applications[first].application_status = status],
             raised |-> "none", ret |-> 1]

\* results.sort(key=applied_at, reverse=True): descending, equal keys keeping
\* their order
SortByAppliedAtDesc(rows) ==
    LET keys == {rows[i].applied_at : i \in 1..Len(rows)}
        RECURSIVE From(_)
        From(left) ==
            IF left = {} THEN <<>>
            ELSE LET top == CHOOSE k \in left : \A m \in left : m <= k
                     IsTop(r) == r.applied_at = top
                 IN SelectSeq(rows, IsTop) \o From(left \ {top})
    IN From(keys)

\* the rows employer_applicants builds from the applications given: one row
\* for each application whose job is among employer_jobs and whose worker
\* get_worker_by_id finds
ApplicantRows(db, seed, employer_jobs, apps) ==
    LET JobOf(app) == {k \in 1..Len(employer_jobs) :
                          to_object_id(employer_jobs[k].job_id) = app.job_id}
        Kept(app) == /\ JobOf(app) # {}
                     /\ get_worker_by_id(db, seed, app.worker_id) # None
        kept == SelectSeq(apps, Kept)
        Row(app) ==
            LET job == employer_jobs[CHOOSE k \in JobOf(app) : \A m \in JobOf(app) : m <= k]
                worker == get_worker_by_id(db, seed, app.worker_id)
            IN [application_id |-> StrOf(app._id),
                application_status |-> app.application_status,
                applied_at |-> app.applied_at,
                worker_id |-> StrOf(app.worker_id),
                full_name |-> worker.full_name, phone |-> worker.phone,
                location |-> worker.location, skills |-> worker.skills,
                job_id |-> StrOf(app.job_id), title |-> job.title]
    IN SortByAppliedAtDesc([i \in 1..Len(kept) |-> Row(kept[i])])

\* a listing that takes the applications of every job, whoever posted it
employer_applicants_any_employer(db, order, down, seed, employer_id) ==
    LET employer_jobs == get_jobs_by_employer(db, order, down, employer_id).ret
        results == [p \in DOMAIN db.jobParts |-> db.jobParts[p]]
        any_jobs == ScanPartitions(order, down, results)
        all_jobs == [i \in 1..Len(any_jobs) |->
                        serialize_doc(any_jobs[i]) @@ [job_id |-> StrOf(any_jobs[i]._id)]]
    IN IF employer_jobs = <<>> THEN <<>>
       ELSE ApplicantRows(db, seed, all_jobs, db.applications)

\* employer_applicants: order and down are the listing and the failing
\* partitions of its get_jobs_by_employer, seed the hash key of its
\* get_worker_by_id
employer_applicants(db, order, down, seed, employer_id) ==
    LET employer_jobs == get_jobs_by_employer(db, order, down, employer_id).ret
        job_ids == {to_object_id(employer_jobs[k].job_id) : k \in 1..Len(employer_jobs)}
        InJobs(app) == app.job_id \in job_ids
        applications_list == SelectSeq(db.applications, InJobs)
    IN IF employer_jobs = <<>> THEN <<>>
       ELSE ApplicantRows(db, seed, employer_jobs, applications_list)

ApplicationsOf(db, job_id, worker_id) ==
    {i \in 1..Len(db.applications) :
        db.applications[i].job_id = job_id /\ db.applications[i].worker_id = worker_id}

-----------------------------------------------------------------------------
(* Initial state: an empty database and the first interpreter, whose
   string-hash key is numbered 0; Restart draws the keys of the later ones *)

NoCall == [op |-> "none"]

\* the database with nothing in it
EmptyDB ==
    [users |-> <<>>, workers |-> <<>>,
     workerParts |-> [p \in 0..(NumWorkerPartitions - 1) |-> <<>>],
     employers |-> <<>>, admins |-> <<>>, jobs |-> <<>>,
     jobParts |-> [y \in {} |-> <<>>], applications |-> <<>>, nextId |-> 1]

\* the request threads of the server, and none of them inside a call
Threads == 1..MaxThreads
Idle == [op |-> "idle"]
NoFlight == [t \in Threads |-> Idle]

Init ==
    /\ users = <<>>
    /\ workers = <<>>
    /\ workerParts = [p \in 0..(NumWorkerPartitions - 1) |-> <<>>]
    /\ employers = <<>>
    /\ admins = <<>>
    /\ jobs = <<>>
    /\ jobParts = [y \in {} |-> <<>>]
    /\ applications = <<>>
    /\ nextId = 1
    /\ clock = 0
    /\ hashSeed = 0
    /\ last = NoCall
    /\ tagSeen = {}
    /\ ensured = {}
    /\ postedIn = {}
    /\ inflight = NoFlight

UserIds == {users[i]._id : i \in 1..Len(users)}
UsersWithRole(role) == {users[i]._id : i \in {k \in 1..Len(users) : users[k].role = role}}

-----------------------------------------------------------------------------
(* The interpreter restarts, or another server process serves the next    *)
(* request: the string-hash key is drawn again, the database stays.       *)
Restart ==
    /\ hashSeed' \in 0..MaxSeed
    /\ hashSeed' # hashSeed
    /\ last' = [op |-> "restart"]
    /\ UNCHANGED <<users, workers, workerParts, employers, admins, jobs, jobParts,
                   applications, nextId, clock, tagSeen, ensured, postedIn, inflight>>

\* GET /api/debug/workers/hash_partition/<worker_id>, and every internal use
HashPartitionCall(worker_id) ==
    LET partition_num == hash_partition(hashSeed, worker_id, NumWorkerPartitions)
    IN /\ tagSeen' = tagSeen \cup {<<worker_id, partition_num>>}
       /\ last' = [op |-> "hash_partition", arg |-> worker_id, ret |-> partition_num]
       /\ UNCHANGED <<users, workers, workerParts, employers, admins, jobs, jobParts,
                      applications, nextId, clock, hashSeed, ensured, postedIn, inflight>>

-----------------------------------------------------------------------------
(* Users and profiles *)

\* POST /auth/register
Register(email_in, role, skills, idCap) ==
    /\ nextId + 1 <= idCap
    /\ LET email == Lower(Strip(email_in))
           db1 == create_user(DB, email, role)
           user == get_user_by_email(db1, email)
           user_id == to_object_id(user.user_id)
           w == ensure_worker_row(db1, hashSeed, user_id, <<>>, skills)
           db2 == IF role = "employer" THEN create_employer_profile(db1, user_id, <<>>, <<>>)
                  ELSE IF role = "worker" THEN w.db
                  ELSE IF role = "admin" THEN create_admin_profile(db1, user_id, <<>>, <<>>)
                  ELSE db1
       IN /\ SetDB(db2)
          /\ ensured' = IF role = "worker"
                        THEN ensured \cup {<<user_id, to_object_id(w.ret.worker_id)>>}
                        ELSE ensured
          /\ last' = [op |-> "register", arg |-> email, ret |-> user.user_id]
    /\ UNCHANGED <<clock, hashSeed, tagSeen, postedIn, inflight>>

\* ensure_worker_row(user_id), called for a user of the users collection
EnsureWorkerRow(user_id, idCap) ==
    /\ nextId <= idCap
    /\ LET r == ensure_worker_row(DB, hashSeed, user_id, <<>>, <<>>)
       IN /\ SetDB(r.db)
          /\ ensured' = ensured \cup {<<user_id, to_object_id(r.ret.worker_id)>>}
          /\ last' = [op |-> "ensure_worker_row", arg |-> user_id,
                      ret |-> to_object_id(r.ret.worker_id), created |-> r.created,
                      repeat |-> (\E p \in ensured : p[1] = user_id)]
    /\ UNCHANGED <<clock, hashSeed, tagSeen, postedIn, inflight>>

\* get_worker_by_id(worker_id)
GetWorkerById(worker_id) ==
    /\ last' = [op |-> "get_worker_by_id", worker_id |-> worker_id,
                ret |-> get_worker_by_id(DB, hashSeed, worker_id)]
    /\ UNCHANGED <<users, workers, workerParts, employers, admins, jobs, jobParts,
                   applications, nextId, clock, hashSeed, tagSeen, ensured, postedIn,
                   inflight>>

\* upsert_worker_profile(worker_id, data)
UpsertWorkerProfile(worker_id, data) ==
    /\ LET r == upsert_worker_profile(DB, hashSeed, worker_id, data)
       IN /\ SetDB(r.db)
          /\ last' = [op |-> "upsert_worker_profile", worker_id |-> worker_id,
                      data |-> data, raised |-> "none", ret |-> r.ret]
    /\ UNCHANGED <<clock, hashSeed, tagSeen, ensured, postedIn, inflight>>

\* delete_user(user_id)
DeleteUser(user_id) ==
    /\ LET r == delete_user(DB, user_id)
       IN /\ SetDB(r.db)
          /\ last' = [op |-> "delete_user", arg |-> user_id, ret |-> r.ret]
    /\ UNCHANGED <<clock, hashSeed, tagSeen, ensured, postedIn, inflight>>

\* DELETE /api/admin/users/<user_id>, sent by the admin current_user_id
api_admin_delete_user(current_user_id, user_obj_id) ==
    LET IsUser == [_id |-> user_obj_id]
        Owned == [user_id |-> user_obj_id]
    IN /\ IF user_obj_id = current_user_id
          THEN /\ last' = [op |-> "api_admin_delete_user", arg |-> user_obj_id, ret |-> 400]
               /\ SetDB(DB)
          ELSE IF FindOne(users, IsUser) = None
          THEN /\ last' = [op |-> "api_admin_delete_user", arg |-> user_obj_id, ret |-> 404]
               /\ SetDB(DB)
          ELSE /\ SetDB([DB EXCEPT !.workers = DeleteOne(@, Owned),
                                   !.employers = DeleteOne(@, Owned),
                                   !.admins = DeleteOne(@, Owned),
                                   !.users = DeleteOne(@, IsUser)])
               /\ last' = [op |-> "api_admin_delete_user", arg |-> user_obj_id,
                           ret |-> IF DeletedCount(users, IsUser) > 0 THEN 200 ELSE 404]
       /\ UNCHANGED <<clock, hashSeed, tagSeen, ensured, postedIn, inflight>>

-----------------------------------------------------------------------------
(* Jobs and applications *)

JobPartitionIds ==
    {jobParts[y][i]._id : <<y, i>> \in
        {<<y, i>> \in (DOMAIN jobParts) \X (1..nextId) : i <= Len(jobParts[y])}}
LegacyJobIds == {jobs[i]._id : i \in 1..Len(jobs)}
EmployerIds == {employers[i]._id : i \in 1..Len(employers)}

\* datetime.utcnow() is the wall clock: it moves, in either direction
SetClock(t) ==
    /\ t # clock
    /\ clock' = t
    /\ last' = [op |-> "clock"]
    /\ UNCHANGED <<users, workers, workerParts, employers, admins, jobs, jobParts,
                   applications, nextId, hashSeed, tagSeen, ensured, postedIn, inflight>>

\* post_job(employer_id, data)
PostJob(employer_id, data, idCap) ==
    /\ nextId <= idCap
    /\ LET r == post_job(DB, clock, employer_id, data)
       IN /\ SetDB(r.db)
          /\ postedIn' = IF r.raised = "none"
                         THEN postedIn \cup {<<r.ret, YearOf(clock)>>} ELSE postedIn
          /\ last' = [op |-> "post_job", employer_id |-> employer_id, data |-> data,
                      raised |-> r.raised, ret |-> r.ret]
    /\ UNCHANGED <<clock, hashSeed, tagSeen, ensured, inflight>>

\* update_job(job_id, data)
UpdateJob(job_id, data) ==
    /\ LET r == update_job(DB, job_id, data)
       IN /\ SetDB(r.db)
          /\ last' = [op |-> "update_job", job_id |-> job_id, data |-> data,
                      raised |-> r.raised, ret |-> r.ret]
    /\ UNCHANGED <<clock, hashSeed, tagSeen, ensured, postedIn, inflight>>

\* delete_job(job_id)
DeleteJob(order, job_id) ==
    /\ LET r == delete_job(DB, order, job_id)
       IN /\ SetDB(r.db)
          /\ last' = [op |-> "delete_job", job_id |-> job_id, ret |-> r.ret]
    /\ UNCHANGED <<clock, hashSeed, tagSeen, ensured, postedIn, inflight>>

\* create_application(job_id, worker_id)
CreateApplication(job_id, worker_id, idCap) ==
    /\ nextId <= idCap \/ ApplicationsOf(DB, job_id, worker_id) # {}
    /\ LET r == create_application(DB, clock, job_id, worker_id)
       IN /\ SetDB(r.db)
          /\ last' = [op |-> "create_application", job_id |-> job_id,
                      worker_id |-> worker_id, raised |-> r.raised,
                      existed |-> (ApplicationsOf(DB, job_id, worker_id) # {}),
                      inserted |-> Len(r.db.applications) - Len(applications)]
    /\ UNCHANGED <<clock, hashSeed, tagSeen, ensured, postedIn, inflight>>

\* worker_matched_jobs(worker_id, skills, location)
WorkerMatchedJobs(order, down, worker_id, skills, location) ==
    /\ LET r == worker_matched_jobs(DB, order, down, worker_id, skills, location)
       IN last' = [op |-> "worker_matched_jobs", order |-> order, down |-> down,
                   worker_id |-> worker_id, skills |-> skills, location |-> location,
                   raised |-> r.raised, ret |-> r.ret]
    /\ UNCHANGED <<users, workers, workerParts, employers, admins, jobs, jobParts,
                   applications, nextId, clock, hashSeed, tagSeen, ensured, postedIn, inflight>>

\* admin_list_jobs()
AdminListJobs(order, down) ==
    /\ LET r == admin_list_jobs(DB, order, down)
       IN last' = [op |-> "admin_list_jobs", order |-> order, down |-> down,
                   raised |-> r.raised, ret |-> r.ret]
    /\ UNCHANGED <<users, workers, workerParts, employers, admins, jobs, jobParts,
                   applications, nextId, clock, hashSeed, tagSeen, ensured, postedIn, inflight>>

\* get_jobs_by_employer(employer_id)
GetJobsByEmployer(order, down, employer_id) ==
    /\ LET r == get_jobs_by_employer(DB, order, down, employer_id)
       IN last' = [op |-> "get_jobs_by_employer", order |-> order, down |-> down,
                   employer_id |-> employer_id, raised |-> r.raised, ret |-> r.ret]
    /\ UNCHANGED <<users, workers, workerParts, employers, admins, jobs, jobParts,
                   applications, nextId, clock, hashSeed, tagSeen, ensured, postedIn, inflight>>

\* search_jobs(query_text, location, skills)
SearchJobs(query_text, location, skills) ==
    /\ last' = [op |-> "search_jobs", query_text |-> query_text,
                location |-> location, skills |-> skills,
                ret |-> search_jobs(DB, query_text, location, skills)]
    /\ UNCHANGED <<users, workers, workerParts, employers, admins, jobs, jobParts,
                   applications, nextId, clock, hashSeed, tagSeen, ensured, postedIn, inflight>>

-----------------------------------------------------------------------------
(* Request handlers of app.py on jobs and applications *)

\* the handler of the exceptions no request handler catches
handle_error(error) ==
    IF error = "JWTExtendedException"
    THEN [ret |-> 401, msg |-> "Invalid or expired token. Please log in again."]
    ELSE [ret |-> 500, msg |-> "An error occurred. Please try again."]

\* POST /api/worker/apply, sent by the worker user user_id
api_worker_apply(user_id, order, job_id, idCap) ==
    /\ nextId <= idCap
    /\ LET w == get_worker_by_user(DB, user_id)
           r == create_application(DB, clock, job_id, to_object_id(w.worker_id))
           applied == w # None /\ ApplicationsOf(DB, job_id, to_object_id(w.worker_id)) # {}
           Call(response) == [op |-> "api_worker_apply", user_id |-> user_id,
                              job_id |-> job_id, applied |-> applied,
                              ret |-> response.ret, msg |-> response.msg]
       IN IF w = None
          THEN /\ SetDB(DB)
               /\ last' = Call([ret |-> 400, msg |-> "worker profile missing"])
          ELSE IF get_job_by_id(DB, order, job_id) = None
          THEN /\ SetDB(DB)
               /\ last' = Call([ret |-> 404, msg |-> "job not found"])
          ELSE /\ SetDB(r.db)
               /\ last' = IF r.raised = "none"
                          THEN Call([ret |-> 200, msg |-> "applied"])
                          ELSE Call(handle_error(r.raised))
    /\ UNCHANGED <<clock, hashSeed, tagSeen, ensured, postedIn, inflight>>

\* update_application_status(application_id, status)
UpdateApplicationStatus(application_id, status) ==
    /\ LET r == update_application_status(DB, application_id, status)
       IN /\ SetDB(r.db)
          /\ last' = [op |-> "update_application_status",
                      application_id |-> application_id, status |-> status,
                      raised |-> r.raised, ret |-> r.ret]
    /\ UNCHANGED <<clock, hashSeed, tagSeen, ensured, postedIn, inflight>>

\* PUT /api/admin/applications/<application_id>: status is the "status" of the
\* body, MissingStr when the body has none
api_admin_update_application(app_obj_id, status) ==
    LET Q == [_id |-> app_obj_id]
        hit == Matching(applications, Q)
        first == CHOOSE i \in hit : \A j \in hit : i <= j
    IN /\ IF hit = {}
          THEN /\ SetDB(DB)
               /\ last' = [op |-> "api_admin_update_application",
                           application_id |-> app_obj_id, status |-> status, ret |-> 404]
          ELSE IF status \in {"pending", "approved", "rejected"}
          THEN /\ SetDB([DB EXCEPT !.applications[first].application_status = status])
               /\ last' = [op |-> "api_admin_update_application",
                           application_id |-> app_obj_id, status |-> status, ret |-> 200]
          ELSE /\ SetDB(DB)
               /\ last' = [op |-> "api_admin_update_application",
                           application_id |-> app_obj_id, status |-> status, ret |-> 400]
       /\ UNCHANGED <<clock, hashSeed, tagSeen, ensured, postedIn, inflight>>

\* employer_applicants(employer_id)
EmployerApplicants(order, down, employer_id) ==
    /\ last' = [op |-> "employer_applicants", order |-> order, down |-> down,
                employer_id |-> employer_id,
                ret |-> employer_applicants(DB, order, down, hashSeed, employer_id)]
    /\ UNCHANGED <<users, workers, workerParts, employers, admins, jobs, jobParts,
                   applications, nextId, clock, hashSeed, tagSeen, ensured, postedIn,
                   inflight>>

\* a status request that does not compare the job's employer with the sender's
api_employer_update_application_unowned(user_id, order, application_id, new_status) ==
    LET Q == [_id |-> application_id]
        application == FindOne(applications, Q)
        r == update_application_status(DB, application_id, new_status)
        Call(ret, msg) == [op |-> "api_employer_update_application", user_id |-> user_id,
                           application_id |-> application_id, status |-> new_status,
                           ret |-> ret, msg |-> msg]
    IN /\ IF new_status \notin {"approved", "rejected"}
          THEN SetDB(DB) /\ last' = Call(400, "invalid status")
          ELSE IF application = None
          THEN SetDB(DB) /\ last' = Call(404, "application not found")
          ELSE SetDB(r.db) /\ last' = Call(200, "updated")
       /\ UNCHANGED <<clock, hashSeed, tagSeen, ensured, postedIn, inflight>>

\* PUT /api/employer/applications/<application_id>/status, sent by the user
\* user_id; new_status is the "status" of the body
api_employer_update_application(user_id, order, application_id, new_status) ==
    LET Q == [_id |-> application_id]
        application == FindOne(applications, Q)
        job == get_job_by_id(DB, order, application.job_id)
        emp == get_employer_by_user(DB, user_id)
        r == update_application_status(DB, application_id, new_status)
        Call(ret, msg) == [op |-> "api_employer_update_application", user_id |-> user_id,
                           application_id |-> application_id, status |-> new_status,
                           ret |-> ret, msg |-> msg]
    IN /\ IF new_status \notin {"approved", "rejected"}
          THEN SetDB(DB) /\ last' = Call(400, "invalid status")
          ELSE IF application = None
          THEN SetDB(DB) /\ last' = Call(404, "application not found")
          ELSE IF job = None
          THEN SetDB(DB) /\ last' = Call(404, "job not found")
          ELSE IF emp = None
          THEN SetDB(DB) /\ last' = Call(403, "forbidden")
          ELSE IF job.employer_id # emp.employer_id
          THEN SetDB(DB) /\ last' = Call(403, "forbidden")
          ELSE SetDB(r.db) /\ last' = Call(200, "updated")
       /\ UNCHANGED <<clock, hashSeed, tagSeen, ensured, postedIn, inflight>>

\* POST /api/admin/jobs: the job goes into the collection "jobs".  The body
\* carries employer_id as an ObjectId already converted, 0 standing for an
\* employer_id that is absent or empty
api_admin_create_job(data, idCap) ==
    /\ nextId <= idCap
    /\ LET Blank(v) == ~IsText(v) \/ v = <<>>
           IsEmployer == [_id |-> data.employer_id]
           raises == \/ Truthy(data.salary_min) /\ FloatRaises(data.salary_min)
                     \/ Truthy(data.salary_max) /\ FloatRaises(data.salary_max)
           job_doc == [_id |-> nextId,
                       employer_id |-> data.employer_id,
                       title |-> data.title,
                       required_skills |-> data.required_skills,
                       description |-> Get(data, "description", <<>>),
                       salary_min |-> SalaryField(data.salary_min),
                       salary_max |-> SalaryField(data.salary_max),
                       location |-> Get(data, "location", <<>>),
                       status |-> IF data.status = MissingStr THEN "open" ELSE data.status,
                       posted_at |-> clock]
       IN IF Blank(data.title) \/ Blank(data.required_skills) \/ data.employer_id = 0
          THEN /\ SetDB(DB)
               /\ last' = [op |-> "api_admin_create_job", ret |-> 400]
          ELSE IF FindOne(employers, IsEmployer) = None
          THEN /\ SetDB(DB)
               /\ last' = [op |-> "api_admin_create_job", ret |-> 404]
          ELSE IF raises
          THEN /\ SetDB(DB)
               /\ last' = [op |-> "api_admin_create_job", ret |-> 500]
          ELSE /\ SetDB([DB EXCEPT !.jobs = InsertOne(@, job_doc), !.nextId = @ + 1])
               /\ last' = [op |-> "api_admin_create_job", ret |-> 200, job_id |-> nextId]
    /\ UNCHANGED <<clock, hashSeed, tagSeen, ensured, postedIn, inflight>>

\* DELETE /api/admin/jobs/<job_id>: the job is looked up in the collection "jobs"
api_admin_delete_job(job_obj_id) ==
    LET IsJob == [_id |-> job_obj_id]
        OfJob == [job_id |-> job_obj_id]
    IN /\ IF FindOne(jobs, IsJob) = None
          THEN /\ SetDB(DB)
               /\ last' = [op |-> "api_admin_delete_job", job_id |-> job_obj_id, ret |-> 404]
          ELSE /\ SetDB([DB EXCEPT !.applications = DeleteOne(@, OfJob),
                                   !.jobs = DeleteOne(@, IsJob)])
               /\ last' = [op |-> "api_admin_delete_job", job_id |-> job_obj_id,
                           ret |-> IF DeletedCount(jobs, IsJob) > 0 THEN 200 ELSE 404]
       /\ UNCHANGED <<clock, hashSeed, tagSeen, ensured, postedIn, inflight>>

-----------------------------------------------------------------------------
(* setup_sample_data.py: the sample data, written with insert_one into the
   collections "users", "admins", "employers", "workers", "jobs" and
   "applications".  Password hashes, creation times and the job descriptions,
   which no operation of the model reads, are left out. *)

SampleUsers ==
    <<[email |-> <<"a","d","m","i","n","@","e","x","a","m","p","l","e",".","c","o","m">>,
       role |-> "admin"],
      [email |-> <<"e","m","p","l","o","y","e","r","1","@","c","o","m","p","a","n","y",".","c","o","m">>,
       role |-> "employer"],
      [email |-> <<"e","m","p","l","o","y","e","r","2","@","t","e","c","h",".","c","o","m">>,
       role |-> "employer"],
      [email |-> <<"w","o","r","k","e","r","1","@","e","m","a","i","l",".","c","o","m">>,
       role |-> "worker"],
      [email |-> <<"w","o","r","k","e","r","2","@","e","m","a","i","l",".","c","o","m">>,
       role |-> "worker"],
      [email |-> <<"w","o","r","k","e","r","3","@","e","m","a","i","l",".","c","o","m">>,
       role |-> "worker"]>>

SampleAdminName ==
    <<"S","y","s","t","e","m"," ","A","d","m","i","n","i","s","t","r","a","t","o","r">>

SampleEmployers ==
    <<[user |-> 2, company_name |-> <<"T","e","c","h","C","o","r","p"," ","S","o","l","u","t","i","o","n","s">>,
       location |-> <<"M","u","m","b","a","i">>,
       phone |-> <<"+","9","1","-","9","8","7","6","5","4","3","2","1","0">>],
      [user |-> 3, company_name |-> <<"D","i","g","i","t","a","l"," ","I","n","n","o","v","a","t","i","o","n","s"," ","L","t","d">>,
       location |-> <<"P","u","n","e">>,
       phone |-> <<"+","9","1","-","9","8","7","6","5","4","3","2","1","1">>]>>

SampleWorkers ==
    <<[user |-> 4, full_name |-> <<"R","a","h","u","l"," ","S","h","a","r","m","a">>,
       phone |-> <<"+","9","1","-","9","8","7","6","5","4","3","2","1","2">>,
       location |-> <<"M","u","m","b","a","i">>,
       skills |-> <<"P","y","t","h","o","n",","," ","J","a","v","a","S","c","r","i","p","t",","," ","R","e","a","c","t",","," ","N","o","d","e",".","j","s">>],
      [user |-> 5, full_name |-> <<"P","r","i","y","a"," ","P","a","t","e","l">>,
       phone |-> <<"+","9","1","-","9","8","7","6","5","4","3","2","1","3">>,
       location |-> <<"P","u","n","e">>,
       skills |-> <<"J","a","v","a",","," ","S","p","r","i","n","g"," ","B","o","o","t",","," ","M","y","S","Q","L",","," ","A","n","g","u","l","a","r">>],
      [user |-> 6, full_name |-> <<"A","m","i","t"," ","K","u","m","a","r">>,
       phone |-> <<"+","9","1","-","9","8","7","6","5","4","3","2","1","4">>,
       location |-> <<"D","e","l","h","i">>,
       skills |-> <<"P","H","P",","," ","L","a","r","a","v","e","l",","," ","V","u","e",".","j","s",","," ","P","o","s","t","g","r","e","S","Q","L">>]>>

SampleJobs ==
    <<[employer |-> 1, title |-> <<"F","u","l","l"," ","S","t","a","c","k"," ","D","e","v","e","l","o","p","e","r">>,
       location |-> <<"M","u","m","b","a","i">>,
       status |-> "open",
       required_skills |-> <<"P","y","t","h","o","n",","," ","R","e","a","c","t",","," ","M","o","n","g","o","D","B",","," ","N","o","d","e",".","j","s">>,
       salary_min |-> 800000, salary_max |-> 1200000],
      [employer |-> 1, title |-> <<"F","r","o","n","t","e","n","d"," ","D","e","v","e","l","o","p","e","r">>,
       location |-> <<"M","u","m","b","a","i">>,
       status |-> "open",
       required_skills |-> <<"J","a","v","a","S","c","r","i","p","t",","," ","R","e","a","c","t",","," ","C","S","S",","," ","H","T","M","L">>,
       salary_min |-> 600000, salary_max |-> 900000],
      [employer |-> 2, title |-> <<"B","a","c","k","e","n","d"," ","J","a","v","a"," ","D","e","v","e","l","o","p","e","r">>,
       location |-> <<"P","u","n","e">>,
       status |-> "open",
       required_skills |-> <<"J","a","v","a",","," ","S","p","r","i","n","g"," ","B","o","o","t",","," ","M","y","S","Q","L",","," ","M","i","c","r","o","s","e","r","v","i","c","e","s">>,
       salary_min |-> 700000, salary_max |-> 1100000],
      [employer |-> 2, title |-> <<"D","e","v","O","p","s"," ","E","n","g","i","n","e","e","r">>,
       location |-> <<"P","u","n","e">>,
       status |-> "open",
       required_skills |-> <<"A","W","S",","," ","D","o","c","k","e","r",","," ","K","u","b","e","r","n","e","t","e","s",","," ","J","e","n","k","i","n","s">>,
       salary_min |-> 900000, salary_max |-> 1400000],
      [employer |-> 1, title |-> <<"P","H","P"," ","D","e","v","e","l","o","p","e","r">>,
       location |-> <<"R","e","m","o","t","e">>,
       status |-> "open",
       required_skills |-> <<"P","H","P",","," ","L","a","r","a","v","e","l",","," ","M","y","S","Q","L",","," ","V","u","e",".","j","s">>,
       salary_min |-> 500000, salary_max |-> 800000]>>

SampleApplications ==
    <<[job |-> 1, worker |-> 1, application_status |-> "pending"],
      [job |-> 2, worker |-> 1, application_status |-> "approved"],
      [job |-> 3, worker |-> 2, application_status |-> "approved"],
      [job |-> 1, worker |-> 2, application_status |-> "rejected"],
      [job |-> 5, worker |-> 3, application_status |-> "pending"]>>

\* main(): the script run against an empty database; every look-up for an
\* existing document finds none and every document is inserted
setup_sample_data ==
    /\ users = <<>> /\ admins = <<>> /\ employers = <<>> /\ workers = <<>>
    /\ jobs = <<>> /\ applications = <<>>
    /\ LET nu == Len(SampleUsers)
           ne == Len(SampleEmployers)
           nw == Len(SampleWorkers)
           nj == Len(SampleJobs)
           na == Len(SampleApplications)
           user_ids == [i \in 1..nu |-> nextId + i - 1]
           admin_id == nextId + nu
           employer_ids == [i \in 1..ne |-> admin_id + i]
           worker_ids == [i \in 1..nw |-> admin_id + ne + i]
           job_ids == [i \in 1..nj |-> admin_id + ne + nw + i]
           first_application == admin_id + ne + nw + nj + 1
       IN /\ users' = [i \in 1..nu |-> [_id |-> user_ids[i], email |-> SampleUsers[i].email,
                                        role |-> SampleUsers[i].role]]
          /\ admins' = <<[_id |-> admin_id, user_id |-> user_ids[1],
                          full_name |-> SampleAdminName]>>
          /\ employers' = [i \in 1..ne |->
                             [_id |-> employer_ids[i],
                              user_id |-> user_ids[SampleEmployers[i].user],
                              company_name |-> SampleEmployers[i].company_name,
                              location |-> SampleEmployers[i].location,
                              phone |-> SampleEmployers[i].phone]]
          /\ workers' = [i \in 1..nw |->
                           [_id |-> worker_ids[i],
                            user_id |-> user_ids[SampleWorkers[i].user],
                            full_name |-> SampleWorkers[i].full_name,
                            phone |-> SampleWorkers[i].phone,
                            location |-> SampleWorkers[i].location,
                            skills |-> SampleWorkers[i].skills]]
          /\ jobs' = [i \in 1..nj |->
                        [_id |-> job_ids[i],
                         employer_id |-> employer_ids[SampleJobs[i].employer],
                         title |-> SampleJobs[i].title,
                         required_skills |-> SampleJobs[i].required_skills,
                         description |-> <<>>,
                         salary_min |-> JsonNum(SampleJobs[i].salary_min),
                         salary_max |-> JsonNum(SampleJobs[i].salary_max),
                         location |-> SampleJobs[i].location,
                         status |-> SampleJobs[i].status,
                         posted_at |-> clock]]
          /\ applications' = [i \in 1..na |->
                                [_id |-> first_application + i - 1,
                                 job_id |-> job_ids[SampleApplications[i].job],
                                 worker_id |-> worker_ids[SampleApplications[i].worker],
                                 application_status |->
                                     SampleApplications[i].application_status,
                                 applied_at |-> clock]]
          /\ nextId' = first_application + na
    /\ last' = [op |-> "setup_sample_data"]
    /\ UNCHANGED <<workerParts, jobParts, clock, hashSeed, tagSeen, ensured, postedIn, inflight>>

-----------------------------------------------------------------------------
(* Calls of concurrent requests: the server handles each request on a thread
   of its own, and a call that looks up and then inserts is two steps, with
   the steps of the other threads in between *)

\* the threads that are inside a call
Busy == {t \in Threads : inflight[t] # Idle}

\* create_application(job_id, worker_id) on thread t, up to its find_one
CreateApplicationCheck(t, job_id, worker_id, idCap) ==
    /\ inflight[t] = Idle
    /\ nextId + Cardinality(Busy) <= idCap
    /\ LET Q == [job_id |-> job_id, worker_id |-> worker_id]
           existing == FindOne(applications, Q)
       IN IF existing # None
          THEN /\ inflight' = inflight
               /\ last' = [op |-> "create_application_check", thread |-> t,
                           job_id |-> job_id, worker_id |-> worker_id,
                           raised |-> "ValueError"]
          ELSE /\ inflight' = [inflight EXCEPT ![t] =
                                  [op |-> "create_application", job_id |-> job_id,
                                   worker_id |-> worker_id]]
               /\ last' = [op |-> "create_application_check", thread |-> t,
                           job_id |-> job_id, worker_id |-> worker_id,
                           raised |-> "none"]
    /\ UNCHANGED <<users, workers, workerParts, employers, admins, jobs, jobParts,
                   applications, nextId, clock, hashSeed, tagSeen, ensured, postedIn>>

\* the rest of the call on thread t: insert_one and the return
CreateApplicationInsert(t) ==
    /\ inflight[t].op = "create_application"
    /\ LET r == create_application_insert(DB, clock, inflight[t].job_id, inflight[t].worker_id)
       IN /\ SetDB(r.db)
          /\ last' = [op |-> "create_application_insert", thread |-> t,
                      job_id |-> inflight[t].job_id, worker_id |-> inflight[t].worker_id,
                      raised |-> r.raised, ret |-> r.ret]
    /\ inflight' = [inflight EXCEPT ![t] = Idle]
    /\ UNCHANGED <<clock, hashSeed, tagSeen, ensured, postedIn>>

\* ensure_worker_row(user_id) on thread t, up to the end of its scan of the
\* partitions
EnsureWorkerRowScan(t, user_id, idCap) ==
    /\ inflight[t] = Idle
    /\ nextId + Cardinality(Busy) <= idCap
    /\ LET worker == find_worker_by_user_id(DB, user_id)
       IN IF worker # None
          THEN /\ inflight' = inflight
               /\ last' = [op |-> "ensure_worker_row_scan", thread |-> t,
                           arg |-> user_id, found |-> TRUE]
          ELSE /\ inflight' = [inflight EXCEPT ![t] =
                                  [op |-> "ensure_worker_row", user_id |-> user_id]]
               /\ last' = [op |-> "ensure_worker_row_scan", thread |-> t,
                           arg |-> user_id, found |-> FALSE]
    /\ UNCHANGED <<users, workers, workerParts, employers, admins, jobs, jobParts,
                   applications, nextId, clock, hashSeed, tagSeen, ensured, postedIn>>

\* the rest of the call on thread t: the insert into "workers", the insert into
\* the partition of the new id, the delete from "workers" and the return
EnsureWorkerRowInsert(t) ==
    /\ inflight[t].op = "ensure_worker_row"
    /\ LET r == ensure_worker_row_insert(DB, hashSeed, inflight[t].user_id, <<>>, <<>>)
       IN /\ SetDB(r.db)
          /\ last' = [op |-> "ensure_worker_row_insert", thread |-> t,
                      arg |-> inflight[t].user_id,
                      ret |-> to_object_id(r.ret.worker_id), created |-> r.created]
    /\ inflight' = [inflight EXCEPT ![t] = Idle]
    /\ UNCHANGED <<clock, hashSeed, tagSeen, ensured, postedIn>>

\* ensure_worker_row on thread t after a scan that found no worker: the insert
\* into "workers"
EnsureWorkerRowStage(t) ==
    /\ inflight[t].op = "ensure_worker_row"
    /\ LET r == ensure_worker_row_stage(DB, inflight[t].user_id, <<>>, <<>>)
       IN /\ SetDB(r.db)
          /\ inflight' = [inflight EXCEPT ![t] =
                             [op |-> "ensure_worker_row_staged", worker_doc |-> r.worker_doc]]
          /\ last' = [op |-> "ensure_worker_row_stage", thread |-> t,
                      worker_id |-> r.worker_doc._id]
    /\ UNCHANGED <<clock, hashSeed, tagSeen, ensured, postedIn>>

\* the insert into the partition
EnsureWorkerRowPlace(t) ==
    /\ inflight[t].op = "ensure_worker_row_staged"
    /\ SetDB(ensure_worker_row_place(DB, hashSeed, inflight[t].worker_doc))
    /\ inflight' = [inflight EXCEPT ![t] =
                       [op |-> "ensure_worker_row_placed",
                        worker_doc |-> inflight[t].worker_doc]]
    /\ last' = [op |-> "ensure_worker_row_place", thread |-> t,
                worker_id |-> inflight[t].worker_doc._id]
    /\ UNCHANGED <<clock, hashSeed, tagSeen, ensured, postedIn>>

\* the delete from "workers" and the return
EnsureWorkerRowUnstage(t) ==
    /\ inflight[t].op = "ensure_worker_row_placed"
    /\ SetDB(ensure_worker_row_unstage(DB, inflight[t].worker_doc))
    /\ inflight' = [inflight EXCEPT ![t] = Idle]
    /\ last' = [op |-> "ensure_worker_row", thread |-> t,
                worker_id |-> inflight[t].worker_doc._id,
                ret |-> [worker_id |-> StrOf(inflight[t].worker_doc._id),
                         user_id |-> StrOf(inflight[t].worker_doc.user_id)]]
    /\ UNCHANGED <<clock, hashSeed, tagSeen, ensured, postedIn>>

\* the process stops and a new one starts: the calls in flight end where they
\* are and str hashing gets another key
Crash ==
    /\ hashSeed' \in 0..MaxSeed
    /\ hashSeed' # hashSeed
    /\ inflight' = NoFlight
    /\ last' = [op |-> "crash"]
    /\ UNCHANGED <<users, workers, workerParts, employers, admins, jobs, jobParts,
                   applications, nextId, clock, tagSeen, ensured, postedIn>>

\* POST /api/worker/apply on thread t, up to the end of its look-up of the job
ApiWorkerApplyValidate(t, user_id, order, job_id, idCap) ==
    /\ inflight[t] = Idle
    /\ nextId + Cardinality(Busy) <= idCap
    /\ LET w == get_worker_by_user(DB, user_id)
           Call(ret, msg) == [op |-> "api_worker_apply_validate", thread |-> t,
                              user_id |-> user_id, job_id |-> job_id,
                              ret |-> ret, msg |-> msg]
       IN IF w = None
          THEN inflight' = inflight /\ last' = Call(400, "worker profile missing")
          ELSE IF get_job_by_id(DB, order, job_id) = None
          THEN inflight' = inflight /\ last' = Call(404, "job not found")
          ELSE /\ inflight' = [inflight EXCEPT ![t] =
                                  [op |-> "api_worker_apply", job_id |-> job_id,
                                   worker_id |-> to_object_id(w.worker_id)]]
               /\ last' = Call(0, "")
    /\ UNCHANGED <<users, workers, workerParts, employers, admins, jobs, jobParts,
                   applications, nextId, clock, hashSeed, tagSeen, ensured, postedIn>>

\* the rest of the request on thread t: create_application and the response
ApiWorkerApplyCreate(t) ==
    /\ inflight[t].op = "api_worker_apply"
    /\ LET r == create_application(DB, clock, inflight[t].job_id, inflight[t].worker_id)
           Call(response) == [op |-> "api_worker_apply", thread |-> t,
                              job_id |-> inflight[t].job_id,
                              worker_id |-> inflight[t].worker_id,
                              ret |-> response.ret, msg |-> response.msg]
       IN /\ SetDB(r.db)
          /\ last' = IF r.raised = "none" THEN Call([ret |-> 200, msg |-> "applied"])
                     ELSE Call(handle_error(r.raised))
    /\ inflight' = [inflight EXCEPT ![t] = Idle]
    /\ UNCHANGED <<clock, hashSeed, tagSeen, ensured, postedIn>>

-----------------------------------------------------------------------------
(* Specification of the partition router alone *)

NextHash ==
    \/ \E w \in 1..MaxHashId : HashPartitionCall(w)
    \/ Restart

SpecHash == Init /\ [][NextHash]_vars

(* Specification of users, profiles and workers *)

EmailInputs == {<<"a">>, <<" ", "B">>}
SkillInputs == {<<>>}

NextWorkers ==
    \/ \E e \in EmailInputs, r \in {"worker", "employer", "admin"}, sk \in SkillInputs :
          Register(e, r, sk, MaxId)
    \/ \E u \in UserIds : EnsureWorkerRow(u, MaxId)
    \/ \E u \in UserIds \cup {nextId} : DeleteUser(u)
    \/ \E a \in UsersWithRole("admin"), u \in UserIds \cup {nextId} :
          api_admin_delete_user(a, u)
    \/ Restart

SpecWorkers == Init /\ [][NextWorkers]_vars

(* Specification of post_job with every shape of request body *)

TextBodies ==
    {[title |-> <<"T">>, required_skills |-> <<"a">>, description |-> <<"d">>,
      location |-> <<"M">>],
     [title |-> MissingText, required_skills |-> MissingText,
      description |-> MissingText, location |-> MissingText],
     [title |-> NullText, required_skills |-> <<"a">>, description |-> NullText,
      location |-> NullText]}

SalaryInputs ==
    {JsonMissing, JsonNull, JsonNum(0), JsonNum(1), JsonNum(2), JsonNumText(1), JsonBadText}

JobBody(texts, smin, smax, status) ==
    [title |-> texts.title, required_skills |-> texts.required_skills,
     description |-> texts.description, location |-> texts.location,
     salary_min |-> smin, salary_max |-> smax, status |-> status]

PostBodies == {JobBody(t, lo, hi, MissingStr) : t \in TextBodies, lo \in SalaryInputs,
                                                 hi \in SalaryInputs}

NextPost ==
    \/ \E t \in 0..MaxClock : SetClock(t)
    \/ \E e \in 1..2, data \in PostBodies : PostJob(e, data, MaxIdPost)

SpecPost == Init /\ [][NextPost]_vars

(* Specification of jobs and applications *)

PlainTexts == [title |-> <<"T">>, required_skills |-> <<"a">>, description |-> <<>>,
               location |-> <<"M">>]
PlainBody == JobBody(PlainTexts, JsonNum(1), JsonNum(2), MissingStr)
CloseBody == JobBody([title |-> MissingText, required_skills |-> MissingText,
                      description |-> MissingText, location |-> MissingText],
                     JsonMissing, JsonMissing, "closed")

AllJobIds == JobPartitionIds \cup LegacyJobIds

NextJobs ==
    \/ \E t \in 0..MaxClock : SetClock(t)
    \/ Register(<<"e">>, "employer", <<>>, MaxIdJobs)
    \/ \E e \in EmployerIds : PostJob(e, PlainBody, MaxIdJobs)
    \/ \E e \in EmployerIds : api_admin_create_job(PlainBody @@ [employer_id |-> e], MaxIdJobs)
    \/ \E j \in AllJobIds : UpdateJob(j, CloseBody)
    \/ \E j \in AllJobIds, order \in Orderings(DOMAIN jobParts) : DeleteJob(order, j)
    \/ \E j \in AllJobIds, w \in 1..MaxApplicants : CreateApplication(j, w, MaxIdJobs)
    \/ \E e \in EmployerIds, order \in Orderings(DOMAIN jobParts) :
          GetJobsByEmployer(order, {}, e)

SpecJobs == Init /\ [][NextJobs]_vars

(* Specification of the scans over the job partitions *)

\* the employer ids the jobs of the partitions carry
PostingEmployers ==
    {jobParts[y][i].employer_id : <<y, i>> \in
        {<<y, i>> \in (DOMAIN jobParts) \X (1..MaxIdScan) : i <= Len(jobParts[y])}}

\* at most one partition fails during a scan
Outages == {{}} \cup {{y} : y \in DOMAIN jobParts}

NextScan ==
    \/ \E t \in 0..MaxClock : SetClock(t)
    \/ Register(<<"e">>, "employer", <<>>, MaxIdScan)
    \/ \E u \in UserIds : DeleteUser(u)
    \/ \E e \in EmployerIds : PostJob(e, PlainBody, MaxIdScan)
    \/ \E order \in Orderings(DOMAIN jobParts), down \in Outages :
          WorkerMatchedJobs(order, down, 1, <<"a">>, NullText)
    \/ \E order \in Orderings(DOMAIN jobParts), down \in Outages :
          AdminListJobs(order, down)
    \/ \E order \in Orderings(DOMAIN jobParts), down \in Outages, e \in PostingEmployers :
          GetJobsByEmployer(order, down, e)

SpecScan == Init /\ [][NextScan]_vars

(* Specification of the skill and location matching *)

\* "Python, React"
SkillsPythonReact ==
    <<"P","y","t","h","o","n",","," ","R","e","a","c","t">>
\* ".NET"
SkillsDotNet ==
    <<".","N","E","T">>
\* "Mumbai"
Mumbai ==
    <<"M","u","m","b","a","i">>
\* "Pune"
Pune ==
    <<"P","u","n","e">>
\* "React, MongoDB, Node.js"
RequiresReact ==
    <<"R","e","a","c","t",","," ","M","o","n","g","o","D","B",","," ","N","o","d","e",".","j","s">>
\* "Java, Spring Boot"
RequiresJava ==
    <<"J","a","v","a",","," ","S","p","r","i","n","g"," ","B","o","o","t">>
\* "AWS, Docker, Kubernetes, Jenkins"
RequiresCloud ==
    <<"A","W","S",","," ","D","o","c","k","e","r",","," ","K","u","b","e","r","n","e","t","e","s",","," ","J","e","n","k","i","n","s">>

MatchBody(required_skills, location) ==
    JobBody([title |-> <<"T">>, required_skills |-> required_skills, description |-> <<>>,
             location |-> location], JsonMissing, JsonMissing, MissingStr)

MatchBodies == {MatchBody(RequiresReact, Mumbai), MatchBody(RequiresJava, Pune),
                MatchBody(RequiresCloud, MissingText)}

NextMatch ==
    \/ \E t \in 0..MaxClock : SetClock(t)
    \/ Register(<<"e">>, "employer", <<>>, MaxIdMatch)
    \/ \E e \in EmployerIds, data \in MatchBodies : PostJob(e, data, MaxIdMatch)
    \/ \E order \in Orderings(DOMAIN jobParts), skills \in {SkillsPythonReact, SkillsDotNet},
          location \in {Mumbai, NullText} :
          WorkerMatchedJobs(order, {}, 1, skills, location)

SpecMatch == Init /\ [][NextMatch]_vars

(* Specification of the deletion of jobs, on the sample data *)

SampleWorkerIds == {workers[i]._id : i \in 1..Len(workers)}

NextCascade ==
    \/ setup_sample_data
    \/ \E e \in EmployerIds : PostJob(e, PlainBody, MaxIdCascade)
    \/ \E j \in AllJobIds, w \in SampleWorkerIds : CreateApplication(j, w, MaxIdCascade)
    \/ \E j \in AllJobIds : api_admin_delete_job(j)
    \/ \E j \in AllJobIds, order \in Orderings(DOMAIN jobParts) : DeleteJob(order, j)

SpecCascade == Init /\ [][NextCascade]_vars

(* Specification of search_jobs: jobs posted by employers (post_job) and jobs
   created by the admin (the collection "jobs"), and searches *)

SearchTexts == {NullText, <<"T">>, <<"x">>}
SearchLocations == {NullText, <<"M">>}
SearchSkills == {NullText, <<"a">>}

NextSearch ==
    \/ \E t \in 0..MaxClock : SetClock(t)
    \/ Register(<<"e">>, "employer", <<>>, MaxIdSearch)
    \/ \E e \in EmployerIds : PostJob(e, PlainBody, MaxIdSearch)
    \/ \E e \in EmployerIds : api_admin_create_job(PlainBody @@ [employer_id |-> e], MaxIdSearch)
    \/ \E q \in SearchTexts, l \in SearchLocations, s \in SearchSkills : SearchJobs(q, l, s)

SpecSearch == Init /\ [][NextSearch]_vars

(* Specification of concurrent calls: an employer, jobs, and threads that
   apply for a job or ensure the worker record of a user *)

NextRace ==
    \/ Register(<<"e">>, "employer", <<>>, MaxIdRace)
    \/ \E e \in EmployerIds : PostJob(e, PlainBody, MaxIdRace - 2)
    \/ \E t \in Threads, j \in JobPartitionIds, w \in 1..MaxApplicants :
          CreateApplicationCheck(t, j, w, MaxIdRace)
    \/ \E t \in Threads : CreateApplicationInsert(t)
    \/ \E t \in Threads, u \in UserIds : EnsureWorkerRowScan(t, u, MaxIdRace)
    \/ \E t \in Threads : EnsureWorkerRowInsert(t)

SpecRace == Init /\ [][NextRace]_vars

(* Specification of the application statuses: the sample data or applications
   made one by one, and status updates by the model function and by the admin *)

StatusInputs == {"pending", "approved", "rejected", "Approved", "closed", NullStr, MissingStr}
ApplicationIds == {applications[i]._id : i \in 1..Len(applications)}

NextStatus ==
    \/ setup_sample_data
    \/ \E w \in 1..MaxApplicants : CreateApplication(1, w, MaxIdStatus)
    \/ \E a \in ApplicationIds \cup {nextId}, s \in StatusInputs :
          UpdateApplicationStatus(a, s)
    \/ \E a \in ApplicationIds \cup {nextId}, s \in StatusInputs :
          api_admin_update_application(a, s)

SpecStatus == Init /\ [][NextStatus]_vars

(* Specification of the worker profiles: a worker registers, the server
   restarts, and the profile is read and written by worker id *)

\* the ids of the workers in the partitions
WorkerIds ==
    {workerParts[p][i]._id : <<p, i>> \in
        {<<p, i>> \in (0..(NumWorkerPartitions - 1)) \X (1..MaxIdProfile) :
            i <= Len(workerParts[p])}}

\* bodies of PUT /api/worker/profile: which of the plain fields are supplied,
\* and the two experience fields
ProfileBody(supplied, experience, experience_years) ==
    [full_name |-> IF "full_name" \in supplied THEN <<"n">> ELSE MissingText,
     skills |-> IF "skills" \in supplied THEN <<"s">> ELSE MissingText,
     phone |-> IF "phone" \in supplied THEN <<"1">> ELSE MissingText,
     location |-> IF "location" \in supplied THEN <<"M">> ELSE MissingText,
     age |-> IF "age" \in supplied THEN <<"2">> ELSE MissingText,
     gender |-> IF "gender" \in supplied THEN <<"f">> ELSE MissingText,
     experience |-> experience,
     experience_years |-> experience_years]

SuppliedSets == {{}, {"full_name", "phone", "age"}, {"skills", "location", "gender"},
                 {"full_name", "skills", "phone", "location", "age", "gender"}}

ProfileBodies ==
    {ProfileBody(s, e, y) : s \in SuppliedSets, e \in {MissingText, <<"5">>},
                            y \in {MissingText, NullText, <<>>, <<"3">>}}

NextProfile ==
    \/ Register(<<"w">>, "worker", <<"a">>, MaxIdProfile)
    \/ Restart
    \/ \E w \in WorkerIds \cup {nextId} : GetWorkerById(w)
    \/ \E w \in WorkerIds \cup {nextId}, data \in ProfileBodies : UpsertWorkerProfile(w, data)

SpecProfile == Init /\ [][NextProfile]_vars

(* Specification of the applicants of an employer: two employers and a worker
   have registered; the first employer has posted a job and either of them a
   second one, in the same year or in the next;
   applications are made at two times, for the worker and for a worker id that
   no record has; the hash key is the one the worker was stored under or a
   later one *)

\* the ids of the workers in the partitions
PartitionWorkerIds ==
    {workerParts[p][i]._id : <<p, i>> \in
        {<<p, i>> \in (0..(NumWorkerPartitions - 1)) \X (1..nextId) :
            i <= Len(workerParts[p])}}

\* an id that no document has: the one before the first id given out
NoId == EmptyDB.nextId - 1

\* the database after the three registrations
RegisteredDB ==
    LET db1 == create_employer_profile(create_user(EmptyDB, <<"e">>, "employer"),
                                       1, <<>>, <<>>)
        db2 == create_employer_profile(create_user(db1, <<"f">>, "employer"),
                                       3, <<>>, <<>>)
    IN ensure_worker_row(create_user(db2, <<"w">>, "worker"), 0, 5, <<>>, <<"a">>).db

\* the times of the calls
CallTimes == {0, TicksPerYear}

InitApplicants ==
    \E t \in CallTimes, employer_id \in {2, 4}, seed \in 0..MaxSeed :
        \E db \in {post_job(post_job(RegisteredDB, 0, 2, PlainBody).db,
                             t, employer_id, PlainBody).db} :
            /\ users = db.users
            /\ workers = db.workers
            /\ workerParts = db.workerParts
            /\ employers = db.employers
            /\ admins = db.admins
            /\ jobs = db.jobs
            /\ jobParts = db.jobParts
            /\ applications = db.applications
            /\ nextId = db.nextId
            /\ clock = 0
            /\ hashSeed = seed
            /\ last = NoCall
            /\ tagSeen = {}
            /\ ensured = {}
            /\ postedIn = {}
            /\ inflight = NoFlight

NextApplicants ==
    \/ \E t \in CallTimes : SetClock(t)
    \/ \E j \in JobPartitionIds, w \in PartitionWorkerIds \cup {NoId} :
          CreateApplication(j, w, RegisteredDB.nextId + 1 + MaxApplications)
    \/ \E e \in EmployerIds \cup {NoId}, order \in Orderings(DOMAIN jobParts) :
          EmployerApplicants(order, {}, e)

SpecApplicants == InitApplicants /\ [][NextApplicants]_vars

(* Specification of the apply request: an employer and a worker register, jobs
   are posted by the employer and created by the admin, workers apply, and
   the job read paths are called *)

NextApply ==
    \/ Register(<<"e">>, "employer", <<>>, MaxIdApply - 2)
    \/ Register(<<"w">>, "worker", <<"a">>, MaxIdApply - 2)
    \/ \E e \in EmployerIds : PostJob(e, PlainBody, MaxIdApply - 1)
    \/ \E e \in EmployerIds :
          api_admin_create_job(PlainBody @@ [employer_id |-> e], MaxIdApply - 1)
    \/ \E u \in UserIds, j \in AllJobIds \cup {NoId}, order \in Orderings(DOMAIN jobParts) :
          api_worker_apply(u, order, j, MaxIdApply)
    \/ \E order \in Orderings(DOMAIN jobParts) : AdminListJobs(order, {})
    \/ \E order \in Orderings(DOMAIN jobParts), e \in EmployerIds :
          GetJobsByEmployer(order, {}, e)

SpecApply == Init /\ [][NextApply]_vars

(* Specification of the status requests of employers: on the database of the
   applicants specification, applications are made for the jobs and for a job
   id that no job has, and the two employers and the worker send status
   requests *)

NextOwner ==
    \/ \E j \in JobPartitionIds \cup {NoId}, w \in PartitionWorkerIds :
          CreateApplication(j, w, RegisteredDB.nextId + 1 + MaxApplications)
    \/ \E u \in UserIds, order \in Orderings(DOMAIN jobParts),
          a \in ApplicationIds \cup {NoId}, s \in {"approved", "rejected", "pending", MissingStr} :
          api_employer_update_application(u, order, a, s)

SpecOwner == InitApplicants /\ [][NextOwner]_vars

(* Specification of the application status of the matched jobs: on the
   database of the applicants specification a second worker registers, the
   workers apply for the jobs, the applications are approved or rejected,
   and each worker asks for the matched jobs *)

NextView ==
    \/ Register(<<"v">>, "worker", <<"a">>, RegisteredDB.nextId + 3)
    \/ \E j \in JobPartitionIds, w \in PartitionWorkerIds :
          CreateApplication(j, w, RegisteredDB.nextId + 2 + MaxApplications)
    \/ \E a \in ApplicationIds, s \in {"approved", "rejected"} :
          UpdateApplicationStatus(a, s)
    \/ \E order \in Orderings(DOMAIN jobParts), w \in PartitionWorkerIds \cup {NoId} :
          WorkerMatchedJobs(order, {}, w, <<"a">>, NullText)

SpecView == InitApplicants /\ [][NextView]_vars

(* Specification of the employer join: on the database of the applicants
   specification users are deleted and the worker asks for the matched jobs *)

NextJoin ==
    \/ \E u \in UserIds : DeleteUser(u)
    \/ \E order \in Orderings(DOMAIN jobParts), w \in PartitionWorkerIds :
          WorkerMatchedJobs(order, {}, w, <<"a">>, NullText)

SpecJoin == InitApplicants /\ [][NextJoin]_vars

(* Specification of the three writes of ensure_worker_row: users register,
   worker rows are created write by write on the threads, the process
   crashes, and profiles are saved and users deleted between the calls *)

MaxIdStage == 4

StageWorkerIds ==
    {workerParts[p][i]._id : <<p, i>> \in
        {<<p, i>> \in (0..(NumWorkerPartitions - 1)) \X (1..MaxIdStage) :
            i <= Len(workerParts[p])}}

NextStage ==
    \/ Register(<<"e">>, "employer", <<>>, MaxIdStage - 2)
    \/ \E t \in Threads, u \in UserIds : EnsureWorkerRowScan(t, u, MaxIdStage)
    \/ \E t \in Threads : EnsureWorkerRowStage(t)
    \/ \E t \in Threads : EnsureWorkerRowPlace(t)
    \/ \E t \in Threads : EnsureWorkerRowUnstage(t)
    \/ Crash
    \/ \E w \in StageWorkerIds :
          UpsertWorkerProfile(w, ProfileBody({"full_name", "phone", "age"}, MissingText, <<"3">>))
    \/ Busy = {} /\ \E u \in UserIds : DeleteUser(u)

SpecStage == Init /\ [][NextStage]_vars

(* Specification of apply requests against delete_job: on the database of the
   applicants specification the worker sends apply requests on the threads,
   each in two steps, and jobs are deleted *)

NextOrphan ==
    \/ \E t \in Threads, u \in UserIds, order \in Orderings(DOMAIN jobParts),
          j \in JobPartitionIds \cup {NoId} :
          ApiWorkerApplyValidate(t, u, order, j, RegisteredDB.nextId + 1 + MaxApplications)
    \/ \E t \in Threads : ApiWorkerApplyCreate(t)
    \/ \E order \in Orderings(DOMAIN jobParts), j \in JobPartitionIds : DeleteJob(order, j)

SpecOrphan == InitApplicants /\ [][NextOrphan]_vars

(* Specification of the matched jobs of a worker without skills: on the
   database of the applicants specification jobs are deleted and the matched
   jobs are asked for with skills that give no token, and with a skill *)

BlankSkills == {<<>>, <<" ">>, <<",">>, <<" ", ",", ",", " ">>}

NextBlank ==
    \/ \E order \in Orderings(DOMAIN jobParts), j \in JobPartitionIds : DeleteJob(order, j)
    \/ \E order \in Orderings(DOMAIN jobParts), down \in Outages, w \in PartitionWorkerIds,
          skills \in BlankSkills \cup {<<"a">>}, location \in {NullText, <<"M">>} :
          WorkerMatchedJobs(order, down, w, skills, location)

SpecBlank == InitApplicants /\ [][NextBlank]_vars

(* Specification of the cap of worker_matched_jobs: the database holds the
   jobs of one employer, posted by post_job at three times, the first two in
   one year and the third in the next, and the only operation is the scan *)

\* post_job called once for each element of clocks, at that time
RECURSIVE PostMany(_, _, _)
PostMany(db, employer_id, clocks) ==
    IF clocks = <<>> THEN db
    ELSE IF Len(clocks) = 1 THEN post_job(db, clocks[1], employer_id, PlainBody).db
    ELSE LET half == Len(clocks) \div 2
             first == PostMany(db, employer_id, SubSeq(clocks, 1, half))
         IN IF first.nextId = db.nextId + half
            THEN PostMany(first, employer_id, SubSeq(clocks, half + 1, Len(clocks)))
            ELSE first

Repeat(n, t) == [i \in 1..n |-> t]

\* how many jobs are posted at each of the three times
CapCounts == {0, 1, MaxCapJobs - 1, MaxCapJobs}

InitCap ==
    \E n0 \in CapCounts, n1 \in CapCounts, n2 \in CapCounts, late \in BOOLEAN :
        LET db0 == create_employer_profile(create_user(EmptyDB, <<"e">>, "employer"),
                                           1, <<>>, <<>>)
            sameYear == IF late THEN Repeat(n1, 1) \o Repeat(n0, 0)
                        ELSE Repeat(n0, 0) \o Repeat(n1, 1)
        IN \E db \in {PostMany(db0, 2, sameYear \o Repeat(n2, TicksPerYear))} :
           /\ users = db.users
           /\ workers = db.workers
           /\ workerParts = db.workerParts
           /\ employers = db.employers
           /\ admins = db.admins
           /\ jobs = db.jobs
           /\ jobParts = db.jobParts
           /\ applications = db.applications
           /\ nextId = db.nextId
           /\ clock = TicksPerYear
           /\ hashSeed = 0
           /\ last = NoCall
           /\ tagSeen = {}
           /\ ensured = {}
           /\ postedIn = {<<db.jobParts[y][i]._id, y>> : <<y, i>> \in
                            {<<y, i>> \in (DOMAIN db.jobParts) \X (1..db.nextId) :
                                i <= Len(db.jobParts[y])}}
           /\ inflight = NoFlight

NextCap ==
    \E order \in Orderings(DOMAIN jobParts) : WorkerMatchedJobs(order, {}, 1, <<"a">>, NullText)

SpecCap == InitCap /\ [][NextCap]_vars

-----------------------------------------------------------------------------
(* The properties *)

\* the worker records of user u in the worker partitions, by partition and place
WorkersOfUser(u) ==
    {<<p, i>> \in (0..(NumWorkerPartitions - 1)) \X (1..MaxId) :
        i <= Len(workerParts[p]) /\ workerParts[p][i].user_id = u}

\* the last call deleted a user
UserDeleted ==
    \/ last.op = "delete_user" /\ last.ret = 1
    \/ last.op = "api_admin_delete_user" /\ last.ret = 200

\* the last call deleted a job: the job is in no job collection any more
JobDeleted ==
    /\ \/ last.op = "delete_job"
       \/ last.op = "api_admin_delete_job" /\ last.ret = 200
    /\ last.job_id \notin AllJobIds

\* a stored salary against the number (or null) the request carried
SameNumber(stored, supplied) ==
    IF supplied.t = "null" THEN stored.t = "null"
    ELSE stored.t = "num" /\ stored.n = supplied.n

\* the partitions that hold a job id
HoldersOf(job_id) ==
    {y \in DOMAIN jobParts : \E i \in 1..Len(jobParts[y]) : jobParts[y][i]._id = job_id}

\* the jobs stored in the given partitions, and the job ids of a scan's result
JobsIn(parts) == UNION {Range(jobParts[y]) : y \in parts}
IdsOf(docs) == {d._id : d \in docs}
RetIds(rows) == {to_object_id(rows[i].job_id) : i \in 1..Len(rows)}
NewestFirst(rows) == \A i, j \in 1..Len(rows) : i < j => rows[i].posted_at >= rows[j].posted_at

\* the jobs of the given partitions that pass the $match stage of the last call
Qualifying(parts) ==
    {d \in JobsIn(parts) : MatchStage(SkillTokens(last.skills), last.location, d)}

\* the partitions whose query did not fail in the last scan
Reachable == DOMAIN jobParts \ last.down

\* a token of the skills text is a substring of required_skills, letter case aside
HasSkillSubstring(skills, doc) ==
    /\ IsText(doc.required_skills)
    /\ \E i \in 1..Len(SkillTokens(skills)) :
          IsSubstring(SkillTokens(skills)[i], Lower(doc.required_skills))

\* the location of the job equals the one given or is unset, null or empty
LocationFits(location, doc) ==
    LocationGiven(location) =>
        \/ "location" \notin DOMAIN doc
        \/ doc.location \in {location, NullText, <<>>}

(* C1: get_worker_partition_collection / hash_partition(w, 8) gives the same
   partition number for a worker id on every call, in any process run, and
   the number is in 0..7. *)
C1_StablePartition ==
    /\ \A p \in tagSeen : p[2] \in 0..(NumWorkerPartitions - 1)
    /\ \A p, q \in tagSeen : p[1] = q[1] => p[2] = q[2]

(* C2: ensure_worker_row(u) returns the same worker id each time it is called
   for u, and after a call exactly one worker record with user_id = u exists
   across the 8 worker partitions. *)
C2_EnsureIdempotent ==
    last.op = "ensure_worker_row" =>
        /\ \A p \in ensured : p[1] = last.arg => p[2] = last.ret
        /\ Cardinality(WorkersOfUser(last.arg)) = 1

C2_Witness ==
    /\ last.op = "ensure_worker_row"
    /\ last.repeat
    /\ ~last.created
    /\ Cardinality(WorkersOfUser(last.arg)) = 1

(* C3: when create_application(J, W) is called while an application of
   worker W for job J exists (after a first call), it fails with the
   duplicate error and inserts nothing, and the number of applications for
   (J, W) is 1 after both calls. *)
C3_DuplicateRejected ==
    last.op = "create_application" =>
        /\ last.existed => (last.raised = "ValueError" /\ last.inserted = 0)
        /\ ~last.existed => (last.raised = "none" /\ last.inserted = 1)
        /\ Cardinality(ApplicationsOf(DB, last.job_id, last.worker_id)) = 1

C3_Witness ==
    /\ last.op = "create_application"
    /\ last.existed
    /\ last.raised = "ValueError"
    /\ Cardinality(ApplicationsOf(DB, last.job_id, last.worker_id)) = 1

(* C4: for every field set passed to post_job, get_job_by_id on the returned
   id returns a job whose title, required_skills, description, location,
   salary_min and salary_max equal the supplied values, whose status is
   "open", and for which salary_min <= salary_max when both are present. *)
C4_RoundTrip ==
    (last.op = "post_job" /\ last.raised = "none") =>
        \A order \in Orderings(_get_all_job_partitions(DB)) :
            LET job == get_job_by_id(DB, order, last.ret)
            IN /\ job # None
               /\ \A f \in {"title", "required_skills", "description", "location"} :
                     last.data[f] # MissingText => job[f] = last.data[f]
               /\ \A f \in {"salary_min", "salary_max"} :
                     last.data[f].t # "missing" => SameNumber(job[f], last.data[f])
               /\ job.status = "open"
               /\ (job.salary_min.t = "num" /\ job.salary_max.t = "num")
                     => job.salary_min.n <= job.salary_max.n

(* C5 as stated: worker_matched_jobs returns every open job that matches the
   skill query, from every partition, exactly once, ordered by posted_at
   descending across partitions. *)
C5_EveryMatchingJob ==
    (last.op = "worker_matched_jobs" /\ last.down = {}) =>
        /\ RetIds(last.ret) = IdsOf(Qualifying(DOMAIN jobParts))
        /\ Len(last.ret) = Cardinality(Qualifying(DOMAIN jobParts))
        /\ NewestFirst(last.ret)

(* C5, amended: when no partition query fails and no more jobs qualify than
   the cap allows, worker_matched_jobs returns exactly once every open job
   that matches the skill query and whose employer record exists, from every
   partition, ordered by posted_at descending across partitions; a job whose
   employer_id names no employer record is not returned. *)
C5_EveryMatchingJobWithEmployer ==
    (last.op = "worker_matched_jobs" /\ last.down = {}) =>
        LET expected == {d \in Qualifying(DOMAIN jobParts) : EmployersOf(DB, d) # <<>>}
        IN Cardinality(expected) <= MatchLimit =>
              /\ RetIds(last.ret) = IdsOf(expected)
              /\ Len(last.ret) = Cardinality(expected)
              /\ NewestFirst(last.ret)

C5_Witness ==
    /\ last.op = "worker_matched_jobs"
    /\ last.down = {}
    /\ Len(last.ret) >= 2
    /\ \E i \in 1..Len(last.ret) : last.ret[i].posted_at # last.ret[1].posted_at
    /\ \E y \in DOMAIN jobParts : \E i, j \in 1..Len(jobParts[y]) :
          i < j /\ jobParts[y][i].posted_at < jobParts[y][j].posted_at
    /\ Cardinality({y \in DOMAIN jobParts : RetIds(last.ret) \cap IdsOf(JobsIn({y})) # {}}) >= 2

(* C6: in worker_matched_jobs, get_jobs_by_employer and admin_list_jobs, when
   the query against one job partition raises, the call does not fail and
   returns the merged results of the other partitions, the failing one
   contributing nothing. *)
C6_PartialFailure ==
    /\ last.op = "worker_matched_jobs" =>
          LET expected == {d \in Qualifying(Reachable) : EmployersOf(DB, d) # <<>>}
          IN /\ last.raised = "none"
             /\ RetIds(last.ret) = IdsOf(expected)
             /\ Len(last.ret) = Cardinality(expected)
    /\ last.op = "admin_list_jobs" =>
          LET expected == {d \in JobsIn(Reachable) : EmployersOf(DB, d) # <<>>}
          IN /\ last.raised = "none"
             /\ RetIds(last.ret) = IdsOf(expected)
             /\ Len(last.ret) = Cardinality(expected)
    /\ last.op = "get_jobs_by_employer" =>
          LET expected == {d \in JobsIn(Reachable) : d.employer_id = last.employer_id}
          IN /\ last.raised = "none"
             /\ RetIds(last.ret) = IdsOf(expected)
             /\ Len(last.ret) = Cardinality(expected)

C6_Witness ==
    /\ last.op \in {"worker_matched_jobs", "admin_list_jobs", "get_jobs_by_employer"}
    /\ last.down # {}
    /\ JobsIn(last.down) # {}
    /\ last.raised = "none"
    /\ Len(last.ret) >= 1

(* C7: after a job J is deleted, by delete_job(J) or by the admin delete-job
   request, no application with job_id = J remains in the applications
   collection, however many applications referenced J before. *)
C7_CascadeApplications ==
    JobDeleted => \A i \in 1..Len(applications) : applications[i].job_id # last.job_id

(* C8: after a user U is deleted by delete_user(U) or by the admin
   delete-user request, no worker, employer or admin profile with
   user_id = U remains in any collection, the 8 worker partitions included. *)
C8_CascadeProfiles ==
    UserDeleted =>
        /\ get_worker_by_user(DB, last.arg) = None
        /\ get_employer_by_user(DB, last.arg) = None
        /\ get_admin_by_user(DB, last.arg) = None
        /\ \A i \in 1..Len(workers) : workers[i].user_id # last.arg

(* C9: worker_matched_jobs returns a job only if it is open and a trimmed,
   lowercased token of the skills string is a case-insensitive substring of
   its required_skills and, a location being given, its location equals it
   or is unset, null or empty; the worker with "Python, React" in "Mumbai"
   gets the job requiring "React, MongoDB, Node.js" in "Mumbai" and not the
   job requiring "Java, Spring Boot" in "Pune". *)
C9_MatchedOnlyBySubstring ==
    last.op = "worker_matched_jobs" =>
        /\ \A d \in JobsIn(DOMAIN jobParts) :
              d._id \in RetIds(last.ret) =>
                  /\ d.status = "open"
                  /\ HasSkillSubstring(last.skills, d)
                  /\ LocationFits(last.location, d)
        /\ (last.skills = SkillsPythonReact /\ last.location = Mumbai) =>
              \A d \in JobsIn(DOMAIN jobParts) :
                  /\ (d.required_skills = RequiresReact /\ d.location = Mumbai)
                        => d._id \in RetIds(last.ret)
                  /\ (d.required_skills = RequiresJava /\ d.location = Pune)
                        => d._id \notin RetIds(last.ret)

(* C10: a job created by post_job in year Y is stored in the collection
   jobs_Y and in no other collection, whatever operations follow, and each
   job id is present in at most one jobs partition. *)
C10_PartitionFixed ==
    /\ \A p \in postedIn :
          /\ HoldersOf(p[1]) \subseteq {p[2]}
          /\ p[1] \notin LegacyJobIds
    /\ \A j \in JobPartitionIds :
          /\ Cardinality(HoldersOf(j)) = 1
          /\ \A y \in HoldersOf(j) :
                Cardinality({i \in 1..Len(jobParts[y]) : jobParts[y][i]._id = j}) = 1

C10_Witness ==
    /\ \E p, q \in postedIn : p[2] # q[2] /\ HoldersOf(p[1]) = {p[2]} /\ HoldersOf(q[1]) = {q[2]}
    /\ last.op \in {"update_job", "delete_job", "get_jobs_by_employer"}

(* C11: worker_matched_jobs returns at most 100 jobs, and when more than 100
   jobs match across all partitions the result is exactly the 100 with the
   greatest posted_at over the union of the partitions: the sort and limit
   inside the pipeline drop no job of the global top 100. *)
C11_GlobalTopHundred ==
    (last.op = "worker_matched_jobs" /\ last.down = {}) =>
        LET expected == {d \in Qualifying(DOMAIN jobParts) : EmployersOf(DB, d) # <<>>}
            left == {d \in expected : d._id \notin RetIds(last.ret)}
        IN /\ Len(last.ret) <= MatchLimit
           /\ Cardinality(RetIds(last.ret)) = Len(last.ret)
           /\ RetIds(last.ret) \subseteq IdsOf(expected)
           /\ Cardinality(expected) > MatchLimit => Len(last.ret) = MatchLimit
           /\ Cardinality(expected) <= MatchLimit => left = {}
           /\ \A i \in 1..Len(last.ret) : \A d \in left :
                 last.ret[i].posted_at >= d.posted_at
           /\ NewestFirst(last.ret)

C11_Witness ==
    /\ last.op = "worker_matched_jobs"
    /\ Len(last.ret) = MatchLimit
    /\ Cardinality(DOMAIN jobParts) = 2
    /\ \E y \in DOMAIN jobParts : Len(jobParts[y]) > MatchLimit
    /\ \E i, j \in 1..Len(last.ret) : last.ret[i].posted_at # last.ret[j].posted_at
    /\ \E y \in DOMAIN jobParts : \E i, j \in 1..Len(jobParts[y]) :
          i < j /\ jobParts[y][i].posted_at < jobParts[y][j].posted_at

(* C12: search_jobs scans every jobs_<year> partition: every open job that
   post_job stored and that satisfies all the filters given (and whose
   employer exists) is among the results, the cap of 50 aside. *)
C12_SearchFindsPartitionedJobs ==
    last.op = "search_jobs" =>
        LET wanted == {d \in JobsIn(DOMAIN jobParts) :
                          /\ SearchMatch(last.query_text, last.location, last.skills, d)
                          /\ EmployersOf(DB, d) # <<>>}
        IN Cardinality(wanted) <= SearchLimit => IdsOf(wanted) \subseteq RetIds(last.ret)

(* C13: update_job(J, data) on a job stored by post_job finds J in its year
   partition and applies the fields given, so that the stored job shows the
   new values; "Job not found" is raised only when J is in no partition. *)
C13_UpdateFindsPartition ==
    last.op = "update_job" =>
        /\ HoldersOf(last.job_id) # {} =>
              /\ last.raised = "none"
              /\ \A d \in JobsIn(HoldersOf(last.job_id)) :
                    d._id = last.job_id => d.status = last.data.status
        /\ last.raised = "ValueError" => HoldersOf(last.job_id) = {}

(* C14: delete_job(J) removes J from the partition that holds it and from no
   other: at most one partition changes, by the one document J; it returns 1
   exactly when J was in some partition and 0 otherwise; afterwards
   get_job_by_id(J) returns nothing, in whatever order the partitions are
   listed. *)
C14_DeleteFromOnePartition ==
    [][\A j \in 1..MaxIdJobs :
          (last'.op = "delete_job" /\ last'.job_id = j) =>
              LET Q == [_id |-> j]
                  changed == {y \in DOMAIN jobParts : jobParts'[y] # jobParts[y]}
              IN /\ DOMAIN jobParts' = DOMAIN jobParts
                 /\ last'.ret = (IF HoldersOf(j) # {} THEN 1 ELSE 0)
                 /\ Cardinality(changed) <= 1
                 /\ changed \subseteq HoldersOf(j)
                 /\ HoldersOf(j) # {} => changed # {}
                 /\ \A y \in changed : jobParts'[y] = DeleteOne(jobParts[y], Q)
                 /\ jobs' = jobs
                 /\ \A order \in Orderings(DOMAIN jobParts) :
                       get_job_by_id(DB, order, j)' = None]_vars

C14_Witness ==
    /\ last.op = "delete_job"
    /\ last.ret = 1
    /\ HoldersOf(last.job_id) = {}
    /\ \E y \in DOMAIN jobParts : jobParts[y] # <<>>
    /\ Cardinality(DOMAIN jobParts) = 2

(* C15: two concurrent calls create_application(J, W) can both do the look-up
   before either inserts.  A call whose look-up found no application inserts
   one whatever the other threads did in the meantime: it raises nothing and
   its application is stored, so two applications of W for J are reachable. *)
C15_InsertAfterCheck ==
    last.op = "create_application_insert" =>
        /\ last.raised = "none"
        /\ \E i \in ApplicationsOf(DB, last.job_id, last.worker_id) :
              applications[i]._id = last.ret

C15_Witness ==
    /\ last.op = "create_application_insert"
    /\ Cardinality(ApplicationsOf(DB, last.job_id, last.worker_id)) = 2

(* C16: two concurrent calls ensure_worker_row(u) can both finish the scan of
   the partitions before either inserts.  A call whose scan found no worker
   creates a record whatever the other threads did in the meantime: a new
   record of u with the id returned is stored in a partition, so two worker
   records with user_id = u are reachable. *)
C16_InsertAfterScan ==
    last.op = "ensure_worker_row_insert" =>
        /\ last.created
        /\ \E pi \in WorkersOfUser(last.arg) : workerParts[pi[1]][pi[2]]._id = last.ret

C16_Witness ==
    /\ last.op = "ensure_worker_row_insert"
    /\ Cardinality(WorkersOfUser(last.arg)) = 2

(* C17: update_application_status(id, s) with s outside pending, approved,
   rejected raises an error and changes nothing in the database; and the
   status of every application is one of the three at all times. *)
C17_StatusValid ==
    /\ [](\A i \in 1..Len(applications) :
             applications[i].application_status \in {"pending", "approved", "rejected"})
    /\ [][(/\ last'.op = "update_application_status"
           /\ last'.status \notin {"pending", "approved", "rejected"})
          => /\ last'.raised = "ValueError"
             /\ DB' = DB]_vars

C17_Witness ==
    /\ last.op = "update_application_status"
    /\ last.raised = "ValueError"
    /\ last.application_id \in ApplicationIds
    /\ \E i, j \in 1..Len(applications) :
          applications[i].application_status # applications[j].application_status

\* the worker document with the id in the partition computed from the id, or None
InComputedPartition(w) ==
    LET Q == [_id |-> w]
    IN FindOne(workerParts[get_worker_partition_collection(hashSeed, w)], Q)

\* the partitions that hold a worker with the id
WorkerHolders(w) ==
    LET Q == [_id |-> w]
    IN {p \in 0..(NumWorkerPartitions - 1) : FindOne(workerParts[p], Q) # None}

(* C18: upsert_worker_profile(w, data) for an id w that is not in the
   partition computed from it returns 0, raises nothing, and leaves every
   worker partition (and the rest of the database) as it was: no record is
   created. *)
C18_MissingUpdatesNothing ==
    [][\A w \in 1..(MaxIdProfile + 1) :
          (/\ last'.op = "upsert_worker_profile"
           /\ last'.worker_id = w
           /\ InComputedPartition(w) = None)
          => /\ last'.ret = 0
             /\ last'.raised = "none"
             /\ workerParts' = workerParts
             /\ DB' = DB]_vars

C18_Witness ==
    /\ last.op = "upsert_worker_profile"
    /\ last.ret = 0
    /\ InComputedPartition(last.worker_id) = None
    /\ WorkerHolders(last.worker_id) # {}
    /\ last.data.full_name # MissingText

(* C19, as stated: after upsert_worker_profile(w, data), for w in its computed
   partition, each of full_name, skills, phone, location, experience, age and
   gender is the value of data when supplied and the empty string when not. *)
C19_WholeProfileOverwritten ==
    (last.op = "upsert_worker_profile" /\ InComputedPartition(last.worker_id) # None) =>
        LET d == InComputedPartition(last.worker_id)
        IN \A k \in {"full_name", "skills", "phone", "location", "experience", "age", "gender"} :
              d[k] = Get(last.data, k, <<>>)

(* C19, amended: the same, except that experience is the value of
   experience_years when data carries one that is not empty, null or zero, and
   the value of experience (the empty string when not supplied) otherwise. *)
C19_OverwrittenWithExperienceYears ==
    (last.op = "upsert_worker_profile" /\ InComputedPartition(last.worker_id) # None) =>
        LET d == InComputedPartition(last.worker_id)
        IN /\ \A k \in {"full_name", "skills", "phone", "location", "age", "gender"} :
                 d[k] = Get(last.data, k, <<>>)
           /\ d.experience = IF last.data.experience_years \notin {MissingText, NullText, <<>>}
                             THEN last.data.experience_years
                             ELSE Get(last.data, "experience", <<>>)

C19_Witness ==
    /\ last.op = "upsert_worker_profile"
    /\ InComputedPartition(last.worker_id) # None
    /\ last.data.skills = MissingText
    /\ last.data.experience = <<"5">>
    /\ last.data.experience_years = <<"3">>
    /\ InComputedPartition(last.worker_id).experience = <<"3">>
    /\ InComputedPartition(last.worker_id).skills = <<>>

(* C20: get_worker_by_id(w) returns the worker record whenever one with the id
   is in any of the 8 partitions: the one of the computed partition if there,
   otherwise the first hit of the scan 0..7; and it returns nothing exactly
   when the id is in none of the 8. *)
C20_FoundInAnyPartition ==
    last.op = "get_worker_by_id" =>
        LET w == last.worker_id
            Q == [_id |-> w]
            first == CHOOSE p \in WorkerHolders(w) : \A q \in WorkerHolders(w) : p <= q
            d == IF InComputedPartition(w) # None THEN InComputedPartition(w)
                 ELSE FindOne(workerParts[first], Q)
        IN /\ last.ret = None <=> WorkerHolders(w) = {}
           /\ WorkerHolders(w) # {} =>
                 /\ last.ret.worker_id = StrOf(w)
                 /\ last.ret.id = StrOf(w)
                 /\ last.ret.user_id = StrOf(d.user_id)
                 /\ \A k \in DOMAIN d \ {"_id", "user_id"} : last.ret[k] = d[k]

C20_Witness ==
    /\ last.op = "get_worker_by_id"
    /\ last.ret # None
    /\ InComputedPartition(last.worker_id) = None
    /\ "gender" \in DOMAIN last.ret

(* C21: employer_applicants(e) returns exactly the applications whose job, in
   whichever job partition, belongs to employer e and whose worker is found by
   id in some worker partition, each once, with the job and worker of the
   application, never an application to another employer's job, ordered by
   applied_at descending. *)
C21_ApplicantsOfEmployer ==
    (last.op = "employer_applicants" /\ last.down = {}) =>
        LET own == {d \in JobsIn(DOMAIN jobParts) : d.employer_id = last.employer_id}
            mine == {i \in 1..Len(applications) :
                        /\ applications[i].job_id \in IdsOf(own)
                        /\ WorkerHolders(applications[i].worker_id) # {}}
            ret == last.ret
        IN /\ Len(ret) = Cardinality(mine)
           /\ {to_object_id(ret[k].application_id) : k \in 1..Len(ret)} =
                 {applications[i]._id : i \in mine}
           /\ \A k \in 1..Len(ret) : \E i \in mine :
                 /\ applications[i]._id = to_object_id(ret[k].application_id)
                 /\ applications[i].job_id = to_object_id(ret[k].job_id)
                 /\ applications[i].worker_id = to_object_id(ret[k].worker_id)
                 /\ applications[i].applied_at = ret[k].applied_at
           /\ \A k, m \in 1..Len(ret) : k < m => ret[k].applied_at >= ret[m].applied_at

C21_Witness ==
    /\ last.op = "employer_applicants"
    /\ Len(last.ret) = 2
    /\ last.ret[1].applied_at > last.ret[2].applied_at
    /\ Cardinality(DOMAIN jobParts) = 2
    /\ InComputedPartition(to_object_id(last.ret[1].worker_id)) = None
    /\ Len(applications) = 3
    /\ applications[1].applied_at < applications[3].applied_at
    /\ \E i \in 1..Len(applications) : WorkerHolders(applications[i].worker_id) = {}

\* the role profiles of user u: worker records in the partitions, employer
\* records and admin records
ProfilesOfUser(u) ==
    {<<"worker", pi>> : pi \in WorkersOfUser(u)}
    \cup {<<"employer", i>> : i \in {k \in 1..Len(employers) : employers[k].user_id = u}}
    \cup {<<"admin", i>> : i \in {k \in 1..Len(admins) : admins[k].user_id = u}}

(* C22: in every reachable state no two user records have the same email, and
   every user owns exactly one role profile. *)
C22_UniqueEmailOneProfile ==
    /\ \A i, j \in 1..Len(users) : users[i].email = users[j].email => i = j
    /\ \A u \in UserIds : Cardinality(ProfilesOfUser(u)) = 1

(* C23: an apply request of a worker for a job the worker has applied to
   already ends in a Conflict response of its own, not in the generic failure
   response. *)
C23_DuplicateApplyIsConflict ==
    (last.op = "api_worker_apply" /\ last.applied) =>
        /\ last.ret = 409
        /\ last.msg # handle_error("Exception").msg

(* C24: an employer's status request changes an application only when the
   job of the application is owned by the employer of the sender and the new
   status is approved or rejected, and then it sets that status and nothing
   else; for an application on another employer's job, a missing application,
   job or employer profile, or another status, the request is refused and the
   database is left as it was. *)
C24_OnlyOwnerUpdates ==
    [][\A u \in UserIds, a \in ApplicationIds \cup {NoId} :
          (/\ last'.op = "api_employer_update_application"
           /\ last'.user_id = u
           /\ last'.application_id = a)
          => LET at == {i \in 1..Len(applications) : applications[i]._id = a}
                 owners == {d.employer_id : d \in
                               {d \in JobsIn(DOMAIN jobParts) :
                                   \E i \in at : d._id = applications[i].job_id}}
                 mine == {employers[k]._id : k \in
                             {k \in 1..Len(employers) : employers[k].user_id = u}}
                 allowed == /\ last'.status \in {"approved", "rejected"}
                            /\ at # {}
                            /\ owners # {}
                            /\ owners \subseteq mine
             IN IF allowed
                THEN /\ last'.ret = 200
                     /\ applications' =
                           [i \in 1..Len(applications) |->
                               IF i \in at
                               THEN [applications[i] EXCEPT !.application_status = last'.status]
                               ELSE applications[i]]
                     /\ UNCHANGED <<users, workerParts, employers, jobs, jobParts>>
                ELSE /\ last'.ret \in {400, 403, 404}
                     /\ DB' = DB]_vars

C24_Witness ==
    /\ last.op = "api_employer_update_application"
    /\ last.ret = 403
    /\ last.user_id \in {employers[k].user_id : k \in 1..Len(employers)}
    /\ \E i, j \in 1..Len(applications) :
          /\ applications[i].application_status = "approved"
          /\ applications[j].application_status = "pending"
          /\ applications[j]._id = last.application_id

(* C25: in every row of worker_matched_jobs(w, ...) the application_status
   is the status of an application of w for that job when w has applied for
   it, and null when w has not; the application of another worker for the
   same job does not show in it. *)
C25_OwnApplicationStatus ==
    last.op = "worker_matched_jobs" =>
        \A k \in 1..Len(last.ret) :
            LET own == {i \in 1..Len(applications) :
                           /\ applications[i].job_id = to_object_id(last.ret[k].job_id)
                           /\ applications[i].worker_id = last.worker_id}
            IN IF own = {}
               THEN last.ret[k].application_status = "null"
               ELSE \E i \in own :
                       last.ret[k].application_status = applications[i].application_status

C25_Witness ==
    /\ last.op = "worker_matched_jobs"
    /\ \E k, m \in 1..Len(last.ret) :
          /\ last.ret[k].application_status = "pending"
          /\ last.ret[m].application_status = "null"
          /\ \E i, j \in 1..Len(applications) :
                /\ applications[i].job_id = to_object_id(last.ret[k].job_id)
                /\ applications[i].worker_id = last.worker_id
                /\ applications[j].job_id = to_object_id(last.ret[m].job_id)
                /\ applications[j].worker_id # last.worker_id
                /\ applications[j].application_status = "approved"

(* C26 as stated: the employer join of worker_matched_jobs is a left join, an
   open job that matches the filters is returned even when no employer record
   with its employer_id exists. *)
C26_LeftJoin ==
    (last.op = "worker_matched_jobs" /\ last.down = {}) =>
        \A d \in Qualifying(DOMAIN jobParts) :
            EmployersOf(DB, d) = <<>> => d._id \in RetIds(last.ret)

(* C26, amended: the employer join of worker_matched_jobs is an inner join;
   an open job that matches the filters is not returned when no employer
   record with its employer_id exists, and every returned row carries the
   company name, phone and location of the employer record of its job. *)
C26_InnerJoin ==
    last.op = "worker_matched_jobs" =>
        /\ \A d \in JobsIn(DOMAIN jobParts) :
              EmployersOf(DB, d) = <<>> => d._id \notin RetIds(last.ret)
        /\ \A k \in 1..Len(last.ret) :
              \E d \in JobsIn(DOMAIN jobParts) :
                 /\ d._id = to_object_id(last.ret[k].job_id)
                 /\ \E i \in 1..Len(employers) :
                       /\ employers[i]._id = d.employer_id
                       /\ last.ret[k].company_name = employers[i].company_name
                       /\ last.ret[k].company_phone = employers[i].phone
                       /\ last.ret[k].company_location = employers[i].location

C26_Witness ==
    /\ last.op = "worker_matched_jobs"
    /\ last.down = {}
    /\ Len(last.ret) >= 1
    /\ \E d \in Qualifying(DOMAIN jobParts) : EmployersOf(DB, d) = <<>>

\* the record with id w is in the collection "workers"
Staged(w) == LET Q == [_id |-> w] IN FindOne(workers, Q) # None

\* the partitions of parts that hold the record with id w
HoldersIn(parts, w) ==
    LET Q == [_id |-> w]
    IN {p \in 0..(NumWorkerPartitions - 1) : FindOne(parts[p], Q) # None}

(* C27: while ensure_worker_row creates a worker, after its first insert the
   new record is in the collection "workers" or in a partition at every
   step; when the call returns the record is in the partition computed from
   its id and in no other, and "workers" holds no copy; and no step of any
   operation takes a record out of the partition that holds it or puts it into
   another. *)
C27_StagedThenPlaced ==
    /\ [](\A t \in Threads :
            /\ inflight[t].op = "ensure_worker_row_staged"
                  => Staged(inflight[t].worker_doc._id)
            /\ inflight[t].op = "ensure_worker_row_placed"
                  => WorkerHolders(inflight[t].worker_doc._id) # {})
    /\ [](last.op = "ensure_worker_row" =>
            /\ ~Staged(last.worker_id)
            /\ Cardinality(WorkerHolders(last.worker_id)) = 1)
    /\ [][/\ last'.op = "ensure_worker_row" =>
                HoldersIn(workerParts', last'.worker_id) =
                   {get_worker_partition_collection(hashSeed, last'.worker_id)}
          /\ \A w \in 1..(MaxIdStage + 1) :
                WorkerHolders(w) # {} => WorkerHolders(w)' = WorkerHolders(w)]_vars

C27_Witness ==
    /\ last.op = "ensure_worker_row"
    /\ \E t \in Threads : inflight[t].op = "ensure_worker_row_staged"
    /\ StageWorkerIds = {last.worker_id}

(* C28: every application refers to an existing job; under any interleaving
   of apply requests with delete_job, once the requests have finished every
   application has the id of a job that is in some jobs partition. *)
C28_NoOrphanApplication ==
    Busy = {} => \A i \in 1..Len(applications) : applications[i].job_id \in JobPartitionIds

(* C29: worker_matched_jobs called with skills that give no token (empty,
   blank or only commas) returns the empty list and does not raise, whatever
   open jobs the partitions hold. *)
C29_NoTokensNoJobs ==
    (last.op = "worker_matched_jobs" /\ SkillTokens(last.skills) = <<>>) =>
        /\ last.ret = <<>>
        /\ last.raised = "none"

C29_Witness ==
    /\ last.op = "worker_matched_jobs"
    /\ last.skills = <<" ", ",", ",", " ">>
    /\ last.down = {}
    /\ last.ret = <<>>
    /\ Cardinality({d \in JobsIn(DOMAIN jobParts) : d.status = "open"}) = 2

(* C30: a job created through the admin create-job request is visible to
   every read path like a job created by post_job: get_job_by_id finds it,
   admin_list_jobs and get_jobs_by_employer return it, and a worker's apply
   request for it is not answered with "job not found". *)
C30_AdminJobVisible ==
    /\ \A j \in LegacyJobIds, order \in Orderings(DOMAIN jobParts) :
          get_job_by_id(DB, order, j) # None
    /\ (last.op = "admin_list_jobs" /\ last.down = {}) =>
          LegacyJobIds \subseteq RetIds(last.ret)
    /\ (last.op = "get_jobs_by_employer" /\ last.down = {}) =>
          {jobs[i]._id : i \in {k \in 1..Len(jobs) : jobs[k].employer_id = last.employer_id}}
             \subseteq RetIds(last.ret)
    /\ (last.op = "api_worker_apply" /\ last.job_id \in LegacyJobIds) =>
          last.msg # "job not found"

====
